---------------------------- MODULE Spec2Model ----------------------------
(***************************************************************************)
(* Viking viewport: the viewport state machine of vikviewport.c (the part  *)
(* of src/src/vikroutingengine.c from line 282 on), its zoom, centre and   *)
(* draw-mode operations and the caches they maintain; the drawing calls;   *)
(* the downloads of curl_download.c (src/unnamed/part_000); and the base   *)
(* class of the routing engines (the same file up to line 281).            *)
(*                                                                         *)
(* Numbers.  Every gdouble of the program is modelled as a fixed-point     *)
(* number with FX units per 1.0: a zoom of 4.0 metres per pixel is 4*FX,   *)
(* an easting of 500000.0 m is 500000*FX, a latitude of 45.5 degrees is    *)
(* 45*FX + FX \div 2.  The same scale is used for metres and for degrees,  *)
(* so that reading the two gdoubles of a VikCoord as a struct UTM or as a  *)
(* struct LatLon (the casts of the source) reads the same two numbers.     *)
(* Results that fall between two fixed-point values are rounded down.      *)
(* gint values (pixels, sizes) are plain integers.                         *)
(***************************************************************************)
EXTENDS Integers, Sequences, FiniteSets, TLC

VARIABLES
    vvp,      \* the VikViewport instance (struct _VikViewport)
    lastOp,   \* the last call made on the viewport: [op, arg]
    calls,    \* number of calls made so far
    gdk,      \* the drawing surface: what the last drawing call asked of it
    curl,     \* the process that downloads: statics, cookie file, threads
    ra,       \* the geodesy table: static Radius[181], done_before, and counts
    route     \* the routing engine: what the calls of find have done so far

vars == <<vvp, lastOp, calls, gdk, curl, ra, route>>

---------------------------------------------------------------------------
(* Bounds of the model *)

\* number of calls explored from the freshly created viewport
MaxCalls == 4

---------------------------------------------------------------------------
(* Arithmetic helpers *)

\* fixed-point units per 1.0
FX == 2 * 8

Abs(n) == IF n < 0 THEN -n ELSE n

Max(a, b) == IF a > b THEN a ELSE b

Min(a, b) == IF a < b THEN a ELSE b

\* C integer division and double -> int conversion: truncation toward zero
TruncDiv(a, b) == IF a >= 0 THEN a \div b ELSE -((-a) \div b)

\* floor(a * b / c) for b >= 0, c > 0, without leaving 32 bits on the way
MulDiv(a, b, c) == (a \div c) * b + ((a % c) * b) \div c

\* whether a * b / c leaves a remainder, for a, b >= 0, c > 0
MulMod(a, b, c) == ((a % c) * b) % c

\* the int a double expression base + sign * (a * b / c) converts to, for
\* a, b >= 0 and c > 0: the sum is formed exactly, then truncated toward zero
TruncSum(base, sign, a, b, c) ==
  LET q    == MulDiv(a, b, c)
      frac == MulMod(a, b, c) # 0
      fl   == IF sign >= 0 THEN q ELSE IF frac THEN -q - 1 ELSE -q
      s    == base + fl
  IN  IF s >= 0 \/ ~frac THEN s ELSE s + 1

\* the sign of n as the factor 1 or -1
Sgn(n) == IF n < 0 THEN -1 ELSE 1

\* conversion of an int to gchar (signed 8 bits), as `utm->zone += zone_delta`
ToGChar(n) == ((n + 128) % 256) - 128

\* cos(d degrees) * 1000 for d = 0..90 (libm cos, tabulated per degree)
CosTable ==
  << 1000, 1000, 999, 999, 998, 996, 995, 993, 990, 988, 985, 982, 978, 974, 970,
     966, 961, 956, 951, 946, 940, 934, 927, 921, 914, 906, 899, 891, 883, 875,
     866, 857, 848, 839, 829, 819, 809, 799, 788, 777, 766, 755, 743, 731, 719,
     707, 695, 682, 669, 656, 643, 629, 616, 602, 588, 574, 559, 545, 530, 515,
     500, 485, 469, 454, 438, 423, 407, 391, 375, 358, 342, 326, 309, 292, 276,
     259, 242, 225, 208, 191, 174, 156, 139, 122, 105, 87, 70, 52, 35, 17, 0 >>

\* cos of a fixed-point angle in degrees, times 1000 (periodic, even)
Cos1000(a) ==
  LET d == (Abs(a) \div FX) % 360
      e == IF d > 180 THEN 360 - d ELSE d
  IN  IF e <= 90 THEN CosTable[e + 1] ELSE -CosTable[(180 - e) + 1]

---------------------------------------------------------------------------
(* Coordinates: coords.h / vikcoord.h / coords.c / vikcoord.c.  These files *)
(* are not part of the source at hand; they are modelled from their use in  *)
(* the viewport and from the description of the coordinate model.           *)

VIK_COORD_UTM == "UTM"
VIK_COORD_LATLON == "LATLON"

CoordModes == {VIK_COORD_UTM, VIK_COORD_LATLON}

\* static gdouble EASTING_OFFSET = 500000.0
EASTING_OFFSET == 500000 * FX

\* false northing of the southern hemisphere
SOUTH_NORTHING == 10000000 * FX

\* metres per degree of latitude (and of longitude on the equator)
METRES_PER_DEGREE == 111111

\* the UTM projection is defined up to 84 degrees of latitude
UTM_MAX_LAT == 84

\* struct UTM { northing, easting, zone, letter }
UTMOf(northing, easting, zone, letter) ==
  [northing |-> northing, easting |-> easting, zone |-> zone, letter |-> letter]

\* struct LatLon { lat, lon }
LatLonOf(lat, lon) == [lat |-> lat, lon |-> lon]

\* VikCoord { north_south, east_west, utm_zone, utm_letter, mode }
VikCoordOf(ns, ew, zone, letter, mode) ==
  [north_south |-> ns, east_west |-> ew, utm_zone |-> zone,
   utm_letter |-> letter, mode |-> mode]

\* (struct UTM *) coord: the cast reads the first four fields
VIK_UTM(c) == UTMOf(c.north_south, c.east_west, c.utm_zone, c.utm_letter)

\* (struct LatLon *) coord: the cast reads the first two fields
VIK_LATLON(c) == LatLonOf(c.north_south, c.east_west)

\* *((struct UTM *) coord) = utm: writes four fields, keeps the mode tag
StoreUTM(c, utm) ==
  [c EXCEPT !.north_south = utm.northing, !.east_west = utm.easting,
            !.utm_zone = utm.zone, !.utm_letter = utm.letter]

\* *((struct LatLon *) coord) = ll: writes two fields, keeps zone, letter, tag
StoreLatLon(c, ll) ==
  [c EXCEPT !.north_south = ll.lat, !.east_west = ll.lon]

\* metres of easting per degree of longitude at a latitude
LonUnit(lat) ==
  LET d == Min(Abs(lat) \div FX, UTM_MAX_LAT)
  IN  (METRES_PER_DEGREE * CosTable[d + 1]) \div 1000

\* central meridian of a zone, in degrees (fixed-point)
CentralMeridian(zone) == ((zone - 1) * 6 - 180 + 3) * FX

\* latitude clamped to the poles
ClampLat(lat) == Max(-90 * FX, Min(90 * FX, lat))

\* longitude brought into [-180, 180)
NormLon(lon) == ((lon + 180 * FX) % (360 * FX)) - 180 * FX

\* a_coords_utm_to_latlon
a_coords_utm_to_latlon(utm) ==
  LET y   == IF utm.letter = "N" THEN utm.northing
             ELSE utm.northing - SOUTH_NORTHING
      lat == y \div METRES_PER_DEGREE
      lon == CentralMeridian(utm.zone)
             + (utm.easting - EASTING_OFFSET) \div LonUnit(lat)
  IN  LatLonOf(lat, lon)

\* a_coords_latlon_to_utm
a_coords_latlon_to_utm(ll) ==
  LET lat  == ClampLat(ll.lat)
      lon  == NormLon(ll.lon)
      zone == ((lon + 180 * FX) \div (6 * FX)) + 1
  IN  UTMOf(IF lat >= 0 THEN lat * METRES_PER_DEGREE
            ELSE lat * METRES_PER_DEGREE + SOUTH_NORTHING,
            EASTING_OFFSET + (lon - CentralMeridian(zone)) * LonUnit(lat),
            zone,
            IF lat >= 0 THEN "N" ELSE "M")

\* vik_coord_convert: rewrite in place under dest_mode, no-op when already so
vik_coord_convert(c, dest_mode) ==
  IF c.mode = dest_mode THEN c
  ELSE IF dest_mode = VIK_COORD_LATLON
       THEN [StoreLatLon(c, a_coords_utm_to_latlon(VIK_UTM(c)))
               EXCEPT !.mode = dest_mode]
       ELSE [StoreUTM(c, a_coords_latlon_to_utm(VIK_LATLON(c)))
               EXCEPT !.mode = dest_mode]

\* vik_coord_load_from_latlon: store ll into dest under mode
vik_coord_load_from_latlon(dest, mode, ll) ==
  IF mode = VIK_COORD_LATLON
  THEN [StoreLatLon(dest, ll) EXCEPT !.mode = mode]
  ELSE [StoreUTM(dest, a_coords_latlon_to_utm(ll)) EXCEPT !.mode = mode]

\* vik_coord_load_from_utm: store utm into dest under mode
vik_coord_load_from_utm(dest, mode, utm) ==
  IF mode = VIK_COORD_UTM
  THEN [StoreUTM(dest, utm) EXCEPT !.mode = mode]
  ELSE [StoreLatLon(dest, a_coords_utm_to_latlon(utm)) EXCEPT !.mode = mode]

---------------------------------------------------------------------------
(* Constants of the viewport: vikviewport.h, globals.h and googlemaps.h are *)
(* not part of the source at hand.                                          *)

\* VIK_VIEWPORT_MIN_ZOOM 0.125
VIK_VIEWPORT_MIN_ZOOM == FX \div 8

\* VIK_VIEWPORT_MAX_ZOOM 8192.0
VIK_VIEWPORT_MAX_ZOOM == 8192 * FX

\* VIK_VIEWPORT_UTM_WRONG_ZONE
VIK_VIEWPORT_UTM_WRONG_ZONE == -9999999

VIK_VIEWPORT_DRAWMODE_UTM == "UTM"
VIK_VIEWPORT_DRAWMODE_EXPEDIA == "EXPEDIA"
VIK_VIEWPORT_DRAWMODE_GOOGLE == "GOOGLE"
VIK_VIEWPORT_DRAWMODE_KH == "KH"
VIK_VIEWPORT_DRAWMODE_MERCATOR == "MERCATOR"

DrawModes ==
  {VIK_VIEWPORT_DRAWMODE_UTM, VIK_VIEWPORT_DRAWMODE_EXPEDIA,
   VIK_VIEWPORT_DRAWMODE_GOOGLE, VIK_VIEWPORT_DRAWMODE_KH,
   VIK_VIEWPORT_DRAWMODE_MERCATOR}

\* a ratio of two numbers, kept unevaluated: num / den
Rat(n, d) == [num |-> n, den |-> d]

\* 1 / r
RatInv(r) == Rat(r.den, r.num)

\* GOOGLEMAPS_ZOOM_ONE_MPP * 65536.0 (GOOGLEMAPS_ZOOM_ONE_MPP is 2.1315)
GoogleYNum == (21315 * 65536) \div 10000

\* GOOGLEMAPS_ZOOM_ONE_MPP * 65536.0 * 0.7716245833877
GoogleXNum == (GoogleYNum * 7716) \div 10000

\* a value no finite computation of the model reaches: stands for +-inf
FX_HUGE == 2 * 8 * 1024 * 1024 * FX

\* a / b of two doubles, rounded down; x/0.0 is +-inf (0 for 0/0)
SatDiv(a, b) ==
  IF b = 0 THEN (IF a > 0 THEN FX_HUGE ELSE IF a < 0 THEN -FX_HUGE ELSE 0)
  ELSE IF b > 0 THEN a \div b
  ELSE (-a) \div (-b)

\* the low byte an out-of-range double -> int conversion can leave in a gchar
\* (the conversion is undefined: INT_MIN, INT_MAX or 0 on the usual targets)
UB_DOUBLE_TO_INT == {-1, 0}

\* the zone and letter bytes of a VikCoord on the stack that were never written
UninitVikCoord ==
  {VikCoordOf(0, 0, 0, "?", VIK_COORD_UTM),
   VikCoordOf(0, 0, 77, "M", VIK_COORD_LATLON)}

---------------------------------------------------------------------------
(* Geodesy table and the GPSDrive (Expedia) inverse projection *)

\* Radius[i + 90] = calcR(i) * DEG2RAD for i = -90..90, in metres per degree
Radius ==
  << 111687, 111687, 111686, 111684, 111682, 111679, 111675, 111671, 111666,
     111660, 111654, 111647, 111639, 111631, 111622, 111613, 111603, 111593,
     111581, 111570, 111558, 111545, 111532, 111518, 111504, 111490, 111475,
     111459, 111443, 111427, 111411, 111394, 111377, 111359, 111341, 111323,
     111305, 111287, 111268, 111250, 111231, 111212, 111193, 111174, 111154,
     111135, 111116, 111097, 111078, 111059, 111040, 111021, 111002, 110984,
     110965, 110947, 110930, 110912, 110895, 110878, 110861, 110844, 110828,
     110813, 110798, 110783, 110768, 110754, 110741, 110728, 110715, 110703,
     110692, 110681, 110671, 110661, 110652, 110643, 110635, 110627, 110621,
     110614, 110609, 110604, 110600, 110596, 110593, 110591, 110589, 110588,
     110588,
     110588, 110589, 110591, 110593, 110596, 110600, 110604, 110609, 110614,
     110621, 110627, 110635, 110643, 110652, 110661, 110671, 110681, 110692,
     110703, 110715, 110728, 110741, 110754, 110768, 110783, 110798, 110813,
     110828, 110844, 110861, 110878, 110895, 110912, 110930, 110947, 110965,
     110984, 111002, 111021, 111040, 111059, 111078, 111097, 111116, 111135,
     111154, 111174, 111193, 111212, 111231, 111250, 111268, 111287, 111305,
     111323, 111341, 111359, 111377, 111394, 111411, 111427, 111443, 111459,
     111475, 111490, 111504, 111518, 111532, 111545, 111558, 111570, 111581,
     111593, 111603, 111613, 111622, 111631, 111639, 111647, 111654, 111660,
     111666, 111671, 111675, 111679, 111682, 111684, 111686, 111687, 111687 >>

\* Radius[i]: the values a read can deliver; outside 0..180 the read is out
\* of the array's bounds and delivers whatever lies next to it
RadiusRead(i) ==
  IF i \in 0..180 THEN {Radius[i + 1]} ELSE {1, Radius[1]}

\* the statics before the first viewport is created: Radius is zero-filled
\* and done_before is FALSE; fills counts the runs of the filling loop and
\* viewports the viewports created so far
RaStart ==
  [ Radius      |-> [i \in 1 .. 181 |-> 0],
    done_before |-> FALSE,
    fills       |-> 0,
    viewports   |-> 0 ]

\* faulty variant for C26: done_before is never set
viewport_init_ra_no_flag(r) ==
  IF ~r.done_before
  THEN [r EXCEPT !.Radius = [i \in 1 .. 181 |-> Radius[i]],
                 !.fills = r.fills + 1]
  ELSE r

\* viewport_init_ra: Radius[i+90] = calcR(i) * DEG2RAD for i = -90..90, the
\* values tabulated in Radius above
viewport_init_ra(r) ==
  IF ~r.done_before
  THEN [r EXCEPT !.Radius = [i \in 1 .. 181 |-> Radius[i]],
                 !.fills = r.fills + 1,
                 !.done_before = TRUE]
  ELSE r

\* ALTI_TO_MPP 1.4017295, as a ratio
ALTI_TO_MPP_NUM == 1402

ALTI_TO_MPP_DEN == 1000

\* metres of longitude per degree at latitude lat, for radius Ra
RaCos(Ra, lat) == (Ra * Cos1000(lat)) \div 1000

\* calcxy_rev: the index of `Ra = Radius[90+(gint)zero_lat]`
calcxy_rev_Ra(zero_long, zero_lat) == 90 + TruncDiv(zero_lat, FX)

\* calcxy_rev: the set of (lat, lon) it can deliver
calcxy_rev(x, y, zero_long, zero_lat, pixelfact_x, pixelfact_y, mapSizeX2, mapSizeY2) ==
  { LET px   == TruncDiv((mapSizeX2 - x) * pixelfact_x, FX)
        py   == TruncDiv((y - mapSizeY2) * pixelfact_y, FX)
        lat1 == zero_lat - SatDiv(py * FX, Ra)
        lon1 == zero_long - SatDiv(px * FX, RaCos(Ra, lat1))
        dif  == MulDiv(lat1, 1000 - Cos1000(Abs(lon1 - zero_long)), 1000)
        lat2 == lat1 - (dif * 2) \div 3
        lon2 == zero_long - SatDiv(px * FX, RaCos(Ra, lat2))
    IN  LatLonOf(lat2, lon2)
    : Ra \in RadiusRead(calcxy_rev_Ra(zero_long, zero_lat)) }

\* MERCLAT(d) for d = 0..89 degrees, in fixed-point degrees
MercTable ==
  << 0, 16, 32, 48, 64, 80, 96, 112, 128, 145, 161, 177, 193, 210, 226, 243,
     259, 276, 293, 310, 327, 344, 361, 378, 396, 413, 431, 449, 467, 485, 504,
     522, 541, 560, 579, 598, 618, 638, 658, 679, 699, 720, 742, 763, 786, 808,
     831, 854, 878, 902, 927, 952, 977, 1004, 1031, 1058, 1086, 1115, 1145,
     1176, 1207, 1240, 1273, 1308, 1344, 1381, 1420, 1460, 1502, 1545, 1591,
     1639, 1689, 1743, 1799, 1859, 1923, 1991, 2065, 2146, 2233, 2330, 2439,
     2562, 2703, 2871, 3075, 3339, 3711, 4347 >>

\* MERCLAT(x) = RAD2DEG * log(tan(pi/4 + DEG2RAD * x / 2)), interpolated
\* between whole degrees and held at its value for 89 degrees beyond
MERCLAT(lat) ==
  LET a == Abs(lat)
      d == a \div FX
      m == IF d >= 89 THEN MercTable[90]
           ELSE MercTable[d + 1]
                + ((MercTable[d + 2] - MercTable[d + 1]) * (a % FX)) \div FX
  IN  IF lat < 0 THEN -m ELSE m

\* DEMERCLAT(x) = RAD2DEG * atan(sinh(DEG2RAD * x)), the inverse of MERCLAT
DEMERCLAT(m) ==
  LET a == Abs(m)
      d == CHOOSE k \in 0..89 :
             /\ MercTable[k + 1] <= a
             /\ (k < 89 => MercTable[k + 2] > a)
      l == IF d = 89 THEN 89 * FX
           ELSE d * FX + ((a - MercTable[d + 1]) * FX)
                         \div (MercTable[d + 2] - MercTable[d + 1])
  IN  IF m < 0 THEN -l ELSE l

---------------------------------------------------------------------------
(* The viewport.  An operation maps a viewport to the SET of viewports it   *)
(* can leave behind: a singleton, except where the source's behaviour is    *)
(* undefined.                                                               *)

\* viewport_init: the instance is zero-filled by g_object_new, then set up
viewport_init ==
  [ width |-> 0, height |-> 0,
    alpha_pixbuf |-> 0, alpha_pixbuf_width |-> 0, alpha_pixbuf_height |-> 0,
    center |-> VikCoordOf(0, (-166021) * FX, 31, "N", VIK_COORD_UTM),
    coord_mode |-> VIK_COORD_UTM,
    xmpp |-> 4 * FX, ympp |-> 4 * FX,
    utm_zone_width |-> 0,
    one_utm_zone |-> FALSE,
    drawmode |-> VIK_VIEWPORT_DRAWMODE_UTM,
    google_calcx_fact |-> Rat(0, 1),
    google_calcy_fact |-> Rat(0, 1),
    google_calcx_rev_fact |-> Rat(0, 1),
    google_calcy_rev_fact |-> Rat(0, 1) ]

\* viewport_utm_zone_width
viewport_utm_zone_width(v) ==
  IF v.coord_mode = VIK_COORD_UTM
  THEN LET c   == VIK_UTM(v.center)
           utm == [c EXCEPT !.northing = c.northing - (v.height * v.ympp) \div 2]
           ll  == a_coords_utm_to_latlon(utm)
           bd  == [ll EXCEPT !.lon = ((utm.zone - 1) * 6 - 180) * FX]
       IN  Abs(a_coords_latlon_to_utm(bd).easting - EASTING_OFFSET) * 2
  ELSE 0

\* floor((easting - EASTING_OFFSET) / utm_zone_width + 0.5) converted to int
zone_delta_of(easting, zone_width) ==
  IF zone_width = 0 THEN UB_DOUBLE_TO_INT
  ELSE { (2 * (easting - EASTING_OFFSET) + zone_width) \div (2 * zone_width) }

\* viewport_google_rezoom
viewport_google_rezoom(v) ==
  LET fx == Rat(GoogleXNum, v.xmpp)
      fy == Rat(GoogleYNum, v.ympp)
  IN  [v EXCEPT !.google_calcx_fact = fx,
                !.google_calcy_fact = fy,
                !.google_calcx_rev_fact = RatInv(fx),
                !.google_calcy_rev_fact = RatInv(fy)]

\* 180.0 * mpp / 65536 / 256 * pixels
KHDegrees(mpp, pixels) == MulDiv(mpp * pixels, 45, 4 * 1024 * 1024)

\* faulty variant for C16: the two reverse factors are exchanged
google_screen_to_latlon_swapped(v, dx, dy) ==
  LatLonOf(SatDiv(dy * v.google_calcx_rev_fact.num, v.google_calcx_rev_fact.den)
             + v.center.north_south,
           SatDiv(dx * v.google_calcy_rev_fact.num, v.google_calcy_rev_fact.den)
             + v.center.east_west)

\* the Google branch of vik_viewport_screen_to_coord, for the pixel offsets
\* dx = x - width/2 and dy = height/2 - y
google_screen_to_latlon(v, dx, dy) ==
  LatLonOf(SatDiv(dy * v.google_calcy_rev_fact.num, v.google_calcy_rev_fact.den)
             + v.center.north_south,
           SatDiv(dx * v.google_calcx_rev_fact.num, v.google_calcx_rev_fact.den)
             + v.center.east_west)

\* vik_viewport_screen_to_coord: the values it can leave in *coord
vik_viewport_screen_to_coord(v, x, y, coord) ==
  IF v.coord_mode = VIK_COORD_UTM
  THEN LET easting  == (x - v.width \div 2) * v.xmpp + v.center.east_west
           northing == (v.height \div 2 - y) * v.ympp + v.center.north_south
       IN  { VikCoordOf(northing,
                        easting - zd * v.utm_zone_width,
                        ToGChar(v.center.utm_zone + zd),
                        v.center.utm_letter,
                        VIK_COORD_UTM)
             : zd \in zone_delta_of(easting, v.utm_zone_width) }
  ELSE IF v.coord_mode = VIK_COORD_LATLON
  THEN LET c  == [coord EXCEPT !.mode = VIK_COORD_LATLON]
           dx == x - v.width \div 2
           dy == v.height \div 2 - y
       IN  IF v.drawmode = VIK_VIEWPORT_DRAWMODE_EXPEDIA
           THEN { StoreLatLon(c, ll)
                  : ll \in calcxy_rev(x, y, v.center.east_west, v.center.north_south,
                                      MulDiv(v.xmpp, ALTI_TO_MPP_NUM, ALTI_TO_MPP_DEN),
                                      MulDiv(v.ympp, ALTI_TO_MPP_NUM, ALTI_TO_MPP_DEN),
                                      v.width \div 2, v.height \div 2) }
           ELSE IF v.drawmode = VIK_VIEWPORT_DRAWMODE_GOOGLE
           THEN { StoreLatLon(c, google_screen_to_latlon(v, dx, dy)) }
           ELSE IF v.drawmode = VIK_VIEWPORT_DRAWMODE_KH
           THEN { StoreLatLon(c, LatLonOf(
                    v.center.north_south + KHDegrees(v.ympp, dy),
                    v.center.east_west + KHDegrees(v.xmpp, dx))) }
           ELSE IF v.drawmode = VIK_VIEWPORT_DRAWMODE_MERCATOR
           THEN { StoreLatLon(c, LatLonOf(
                    DEMERCLAT(MERCLAT(v.center.north_south) + KHDegrees(v.ympp, dy)),
                    v.center.east_west + KHDegrees(v.xmpp, dx))) }
           ELSE { c }
  ELSE { coord }

\* a pixel position delivered through the out-parameters x and y
Pixel(x, y) == [x |-> x, y |-> y, abort |-> FALSE]

\* the call stopped at a failed g_assert and delivered nothing
Aborted == [x |-> 0, y |-> 0, abort |-> TRUE]

\* RAD2DEG, times 10
RAD2DEG_10 == 573

\* calcxy: the index of `Ra = Radius[90+(gint)lt]`
calcxy_Ra(lg, lt, zero_long, zero_lat) == 90 + TruncDiv(lt, FX)

\* calcxy: the results it can deliver (it is called with the centre as lg, lt
\* and the target as zero_long, zero_lat)
calcxy(lg, lt, zero_long, zero_lat, pixelfact_x, pixelfact_y, mapSizeX2, mapSizeY2) ==
  IF ~(lt >= (-90) * FX /\ lt <= 90 * FX) THEN { Aborted }
  ELSE { LET xm  == RaCos(Ra, lt) * (lg - zero_long)
             ym  == Ra * (lt - zero_lat)
             dif == MulDiv(MulDiv(Ra * FX, RAD2DEG_10, 10),
                           1000 - Cos1000(lg - zero_long), 1000)
             y1  == ym + (dif * 100) \div 185
         IN  Pixel(TruncSum(mapSizeX2, -Sgn(xm), Abs(xm), 1, pixelfact_x),
                   TruncSum(mapSizeY2, Sgn(y1), Abs(y1), 1, pixelfact_y))
         : Ra \in RadiusRead(calcxy_Ra(lg, lt, zero_long, zero_lat)) }

\* 65536.0 / 180 / mpp * degrees * 256.0, added to base and converted to int
KHPixels(base, mpp, degrees) ==
  TruncSum(base, Sgn(degrees), 4 * 1024 * 1024, Abs(degrees), 45 * mpp)

\* faulty variant for C12: the shift between the zones is left out
coord_to_screen_no_zone_shift(v, coord) ==
  LET center == VIK_UTM(v.center)
      utm    == VIK_UTM(coord)
  IN  IF center.zone # utm.zone /\ v.one_utm_zone
      THEN { Pixel(VIK_VIEWPORT_UTM_WRONG_ZONE, VIK_VIEWPORT_UTM_WRONG_ZONE) }
      ELSE { Pixel(TruncSum(v.width \div 2, Sgn(utm.easting - center.easting),
                            Abs(utm.easting - center.easting), 1, v.xmpp),
                   TruncSum(v.height \div 2, -Sgn(utm.northing - center.northing),
                            Abs(utm.northing - center.northing), 1, v.ympp)) }

\* vik_viewport_coord_to_screen: the results it can deliver
vik_viewport_coord_to_screen(v, coord0) ==
  LET coord == IF coord0.mode # v.coord_mode
               THEN vik_coord_convert(coord0, v.coord_mode)
               ELSE coord0
  IN  IF v.coord_mode = VIK_COORD_UTM
      THEN LET center == VIK_UTM(v.center)
               utm    == VIK_UTM(coord)
               dx     == (utm.easting - center.easting)
                         - (center.zone - utm.zone) * v.utm_zone_width
               dy     == utm.northing - center.northing
           IN  IF center.zone # utm.zone /\ v.one_utm_zone
               THEN { Pixel(VIK_VIEWPORT_UTM_WRONG_ZONE, VIK_VIEWPORT_UTM_WRONG_ZONE) }
               ELSE { Pixel(TruncSum(v.width \div 2, Sgn(dx), Abs(dx), 1, v.xmpp),
                            TruncSum(v.height \div 2, -Sgn(dy), Abs(dy), 1, v.ympp)) }
      ELSE IF v.coord_mode = VIK_COORD_LATLON
      THEN LET center == VIK_LATLON(v.center)
               ll     == VIK_LATLON(coord)
               dlon   == ll.lon - center.lon
               dlat   == center.lat - ll.lat
           IN  IF v.drawmode = VIK_VIEWPORT_DRAWMODE_EXPEDIA
               THEN calcxy(center.lon, center.lat, ll.lon, ll.lat,
                           MulDiv(v.xmpp, ALTI_TO_MPP_NUM, ALTI_TO_MPP_DEN),
                           MulDiv(v.ympp, ALTI_TO_MPP_NUM, ALTI_TO_MPP_DEN),
                           v.width \div 2, v.height \div 2)
               ELSE IF v.drawmode = VIK_VIEWPORT_DRAWMODE_GOOGLE
               THEN { Pixel(TruncSum(v.width \div 2, Sgn(dlon), Abs(dlon),
                                     v.google_calcx_fact.num, v.google_calcx_fact.den),
                            TruncSum(v.height \div 2, Sgn(dlat), Abs(dlat),
                                     v.google_calcy_fact.num, v.google_calcy_fact.den)) }
               ELSE IF v.drawmode = VIK_VIEWPORT_DRAWMODE_KH
               THEN { Pixel(KHPixels(v.width \div 2, v.xmpp, dlon),
                            KHPixels(v.height \div 2, v.ympp, dlat)) }
               ELSE { Pixel(KHPixels(v.width \div 2, v.xmpp, dlon),
                            KHPixels(v.height \div 2, v.ympp,
                                     MERCLAT(center.lat) - MERCLAT(ll.lat))) }
      ELSE { }

\* the Radius index read by vik_viewport_coord_to_screen in Expedia mode:
\* calcxy ( &xx, &yy, center->lon, center->lat, ll->lon, ll->lat, ... )
coord_to_screen_Ra(v, coord) ==
  LET center == VIK_LATLON(v.center)
      ll     == VIK_LATLON(coord)
  IN  calcxy_Ra(center.lon, center.lat, ll.lon, ll.lat)

\* the Radius index read by vik_viewport_screen_to_coord in Expedia mode:
\* calcxy_rev ( ..., x, y, vvp->center.east_west, vvp->center.north_south, ... )
screen_to_coord_Ra(v) ==
  calcxy_rev_Ra(v.center.east_west, v.center.north_south)

\* vik_viewport_center_for_zonen: what it leaves in *center
vik_viewport_center_for_zonen(v, center, zone) ==
  IF v.coord_mode = VIK_COORD_UTM
  THEN LET c == VIK_UTM(v.center)
       IN  [c EXCEPT !.easting = c.easting - (zone - c.zone) * v.utm_zone_width,
                     !.zone = zone]
  ELSE center

\* vik_viewport_leftmost_zone: the zones it can return
vik_viewport_leftmost_zone(v) ==
  IF v.coord_mode = VIK_COORD_UTM
  THEN { c.utm_zone : c \in UNION { vik_viewport_screen_to_coord(v, 0, 0, t)
                                    : t \in UninitVikCoord } }
  ELSE { 0 }

\* vik_viewport_rightmost_zone: the zones it can return
vik_viewport_rightmost_zone(v) ==
  IF v.coord_mode = VIK_COORD_UTM
  THEN { c.utm_zone : c \in UNION { vik_viewport_screen_to_coord(v, v.width, 0, t)
                                    : t \in UninitVikCoord } }
  ELSE { 0 }

\* viewport_utm_zone_check: "called every time we update coordinates/zoom"
viewport_utm_zone_check(v) ==
  IF v.coord_mode = VIK_COORD_UTM
  THEN LET utm == a_coords_latlon_to_utm(a_coords_utm_to_latlon(VIK_UTM(v.center)))
           v1  == IF utm.zone # v.center.utm_zone
                  THEN [v EXCEPT !.center = StoreUTM(v.center, utm)]
                  ELSE v
           v2  == [v1 EXCEPT !.utm_zone_width = viewport_utm_zone_width(v1)]
       IN  { [v2 EXCEPT !.one_utm_zone = (r = l)]
             : r \in vik_viewport_rightmost_zone(v2),
               l \in vik_viewport_leftmost_zone(v2) }
  ELSE { v }

---------------------------------------------------------------------------
(* Operations of the viewport *)

\* vik_viewport_configure_manually
vik_viewport_configure_manually(v, width, height) ==
  { [v EXCEPT !.width = width, !.height = height] }

\* vik_viewport_configure: takes the size of the widget's allocation
vik_viewport_configure(v, width, height) ==
  { [v EXCEPT !.width = width, !.height = height] }

\* faulty variant for C10: the zoom is stored in xmpp alone
set_zoom_x_only(v, xympp) ==
  LET v1 == IF xympp >= VIK_VIEWPORT_MIN_ZOOM /\ xympp <= VIK_VIEWPORT_MAX_ZOOM
            THEN [v EXCEPT !.xmpp = xympp]
            ELSE v
  IN  IF v1.drawmode = VIK_VIEWPORT_DRAWMODE_UTM
      THEN viewport_utm_zone_check(v1)
      ELSE IF v1.drawmode = VIK_VIEWPORT_DRAWMODE_GOOGLE
      THEN { viewport_google_rezoom(v1) }
      ELSE { v1 }

\* vik_viewport_set_zoom
vik_viewport_set_zoom(v, xympp) ==
  LET v1 == IF xympp >= VIK_VIEWPORT_MIN_ZOOM /\ xympp <= VIK_VIEWPORT_MAX_ZOOM
            THEN [v EXCEPT !.xmpp = xympp, !.ympp = xympp]
            ELSE v
  IN  IF v1.drawmode = VIK_VIEWPORT_DRAWMODE_UTM
      THEN viewport_utm_zone_check(v1)
      ELSE IF v1.drawmode = VIK_VIEWPORT_DRAWMODE_GOOGLE
      THEN { viewport_google_rezoom(v1) }
      ELSE { v1 }

\* faulty variant for C5: the Google factors are not recomputed
zoom_in_no_rezoom(v) ==
  IF v.xmpp >= VIK_VIEWPORT_MIN_ZOOM * 2 /\ v.ympp >= VIK_VIEWPORT_MIN_ZOOM * 2
  THEN viewport_utm_zone_check([v EXCEPT !.xmpp = v.xmpp \div 2, !.ympp = v.ympp \div 2])
  ELSE { v }

\* faulty variant for C11: only xmpp is halved
zoom_in_x_only(v) ==
  IF v.xmpp >= VIK_VIEWPORT_MIN_ZOOM * 2 /\ v.ympp >= VIK_VIEWPORT_MIN_ZOOM * 2
  THEN LET v1 == [v EXCEPT !.xmpp = v.xmpp \div 2]
           v2 == IF v1.drawmode = VIK_VIEWPORT_DRAWMODE_GOOGLE
                 THEN viewport_google_rezoom(v1)
                 ELSE v1
       IN  viewport_utm_zone_check(v2)
  ELSE { v }

\* vik_viewport_zoom_in
vik_viewport_zoom_in(v) ==
  IF v.xmpp >= VIK_VIEWPORT_MIN_ZOOM * 2 /\ v.ympp >= VIK_VIEWPORT_MIN_ZOOM * 2
  THEN LET v1 == [v EXCEPT !.xmpp = v.xmpp \div 2, !.ympp = v.ympp \div 2]
           v2 == IF v1.drawmode = VIK_VIEWPORT_DRAWMODE_GOOGLE
                 THEN viewport_google_rezoom(v1)
                 ELSE v1
       IN  viewport_utm_zone_check(v2)
  ELSE { v }

\* faulty variant for C9: each value is doubled up to the bound instead of
\* the call being skipped
zoom_out_clamped(v) ==
  LET v1 == [v EXCEPT !.xmpp = Min(v.xmpp * 2, VIK_VIEWPORT_MAX_ZOOM),
                      !.ympp = Min(v.ympp * 2, VIK_VIEWPORT_MAX_ZOOM)]
      v2 == IF v1.drawmode = VIK_VIEWPORT_DRAWMODE_GOOGLE
            THEN viewport_google_rezoom(v1)
            ELSE v1
  IN  viewport_utm_zone_check(v2)

\* vik_viewport_zoom_out
vik_viewport_zoom_out(v) ==
  IF v.xmpp <= VIK_VIEWPORT_MAX_ZOOM \div 2 /\ v.ympp <= VIK_VIEWPORT_MAX_ZOOM \div 2
  THEN LET v1 == [v EXCEPT !.xmpp = v.xmpp * 2, !.ympp = v.ympp * 2]
           v2 == IF v1.drawmode = VIK_VIEWPORT_DRAWMODE_GOOGLE
                 THEN viewport_google_rezoom(v1)
                 ELSE v1
       IN  viewport_utm_zone_check(v2)
  ELSE { v }

\* vik_viewport_get_zoom
vik_viewport_get_zoom(v) == IF v.xmpp = v.ympp THEN v.xmpp ELSE 0

\* the tail shared by vik_viewport_set_xmpp and vik_viewport_set_ympp
rezoom_after_set(v1) ==
  LET S == IF v1.drawmode = VIK_VIEWPORT_DRAWMODE_UTM
           THEN viewport_utm_zone_check(v1)
           ELSE { v1 }
  IN  { IF w.drawmode = VIK_VIEWPORT_DRAWMODE_GOOGLE
        THEN viewport_google_rezoom(w) ELSE w : w \in S }

\* faulty variant for C1: no range test
set_xmpp_unchecked(v, xmpp) == rezoom_after_set([v EXCEPT !.xmpp = xmpp])

\* vik_viewport_set_xmpp
vik_viewport_set_xmpp(v, xmpp) ==
  IF xmpp >= VIK_VIEWPORT_MIN_ZOOM /\ xmpp <= VIK_VIEWPORT_MAX_ZOOM
  THEN rezoom_after_set([v EXCEPT !.xmpp = xmpp])
  ELSE { v }

\* faulty variant for C6: the zone recheck is left out
set_ympp_no_zone_check(v, ympp) ==
  IF ympp >= VIK_VIEWPORT_MIN_ZOOM /\ ympp <= VIK_VIEWPORT_MAX_ZOOM
  THEN { IF v.drawmode = VIK_VIEWPORT_DRAWMODE_GOOGLE
         THEN viewport_google_rezoom([v EXCEPT !.ympp = ympp])
         ELSE [v EXCEPT !.ympp = ympp] }
  ELSE { v }

\* vik_viewport_set_ympp
vik_viewport_set_ympp(v, ympp) ==
  IF ympp >= VIK_VIEWPORT_MIN_ZOOM /\ ympp <= VIK_VIEWPORT_MAX_ZOOM
  THEN rezoom_after_set([v EXCEPT !.ympp = ympp])
  ELSE { v }

\* vik_viewport_set_center_latlon
vik_viewport_set_center_latlon(v, ll) ==
  LET v1 == [v EXCEPT !.center = vik_coord_load_from_latlon(v.center, v.coord_mode, ll)]
  IN  IF v1.coord_mode = VIK_COORD_UTM THEN viewport_utm_zone_check(v1) ELSE { v1 }

\* vik_viewport_set_center_utm
vik_viewport_set_center_utm(v, utm) ==
  LET v1 == [v EXCEPT !.center = vik_coord_load_from_utm(v.center, v.coord_mode, utm)]
  IN  IF v1.coord_mode = VIK_COORD_UTM THEN viewport_utm_zone_check(v1) ELSE { v1 }

\* vik_viewport_set_center_coord: vvp->center = *coord
vik_viewport_set_center_coord(v, coord) ==
  LET v1 == [v EXCEPT !.center = coord]
  IN  IF v1.coord_mode = VIK_COORD_UTM THEN viewport_utm_zone_check(v1) ELSE { v1 }

\* faulty variant for C28: the northing grows with y
set_center_screen_y_down(v, x, y) ==
  IF v.coord_mode = VIK_COORD_UTM
  THEN viewport_utm_zone_check(
         [v EXCEPT !.center.east_west = @ + v.xmpp * (x - v.width \div 2),
                   !.center.north_south = @ + v.ympp * (y - v.height \div 2)])
  ELSE UNION { vik_viewport_set_center_coord(v, tmp)
               : tmp \in UNION { vik_viewport_screen_to_coord(v, x, y, t)
                                 : t \in UninitVikCoord } }

\* faulty variant for C13: the UTM pan is not followed by the zone recheck
set_center_screen_no_zone_check(v, x, y) ==
  IF v.coord_mode = VIK_COORD_UTM
  THEN { [v EXCEPT !.center.east_west = @ + v.xmpp * (x - v.width \div 2),
                   !.center.north_south = @ + v.ympp * (v.height \div 2 - y)] }
  ELSE UNION { vik_viewport_set_center_coord(v, c)
               : c \in UNION { vik_viewport_screen_to_coord(v, x, y, tmp)
                               : tmp \in UninitVikCoord } }

\* vik_viewport_set_center_screen
vik_viewport_set_center_screen(v, x, y) ==
  IF v.coord_mode = VIK_COORD_UTM
  THEN viewport_utm_zone_check(
         [v EXCEPT !.center.east_west = @ + v.xmpp * (x - v.width \div 2),
                   !.center.north_south = @ + v.ympp * (v.height \div 2 - y)])
  ELSE UNION { vik_viewport_set_center_coord(v, c)
               : c \in UNION { vik_viewport_screen_to_coord(v, x, y, tmp)
                               : tmp \in UninitVikCoord } }

\* viewport_set_coord_mode
viewport_set_coord_mode(v, mode) ==
  [v EXCEPT !.coord_mode = mode, !.center = vik_coord_convert(v.center, mode)]

\* faulty variant for C3: the coordinate mode is left as it was
set_drawmode_only(v, drawmode) ==
  LET v1 == [v EXCEPT !.drawmode = drawmode]
  IN  IF drawmode = VIK_VIEWPORT_DRAWMODE_GOOGLE
      THEN { viewport_google_rezoom(v1) }
      ELSE { v1 }

\* vik_viewport_set_drawmode
vik_viewport_set_drawmode(v, drawmode) ==
  LET v1 == [v EXCEPT !.drawmode = drawmode]
  IN  IF drawmode = VIK_VIEWPORT_DRAWMODE_UTM
      THEN { viewport_set_coord_mode(v1, VIK_COORD_UTM) }
      ELSE LET v2 == viewport_set_coord_mode(v1, VIK_COORD_LATLON)
           IN  IF drawmode = VIK_VIEWPORT_DRAWMODE_GOOGLE
               THEN { viewport_google_rezoom(v2) }
               ELSE { v2 }

---------------------------------------------------------------------------
(* Drawing.  A drawing call yields the viewport it leaves and the sequence  *)
(* of GDK primitives it invoked on the screen buffer.                       *)

Drawn(v, prims) == [v |-> v, prims |-> prims]

\* conversion of an int to guint8
ToGUInt8(n) == n % 256

\* faulty variant for C17: the line is dropped as soon as one endpoint is
\* outside
draw_line_any_endpoint(v, x1, y1, x2, y2) ==
  IF ~( (x1 < 0 \/ x2 < 0) \/ (y1 < 0 \/ y2 < 0)
        \/ (x1 > v.width \/ x2 > v.width) \/ (y1 > v.height \/ y2 > v.height) )
  THEN Drawn(v, << "gdk_draw_line" >>)
  ELSE Drawn(v, << >>)

\* vik_viewport_draw_line
vik_viewport_draw_line(v, x1, y1, x2, y2) ==
  IF ~( (x1 < 0 /\ x2 < 0) \/ (y1 < 0 /\ y2 < 0)
        \/ (x1 > v.width /\ x2 > v.width) \/ (y1 > v.height /\ y2 > v.height) )
  THEN Drawn(v, << "gdk_draw_line" >>)
  ELSE Drawn(v, << >>)

\* vik_viewport_draw_rectangle: x2, y2 are the rectangle's width and height
vik_viewport_draw_rectangle(v, x1, y1, x2, y2) ==
  IF x1 > -10 /\ x1 < v.width + 10 /\ y1 > -10 /\ y1 < v.height + 10
  THEN Drawn(v, << "gdk_draw_rectangle" >>)
  ELSE Drawn(v, << >>)

\* vik_viewport_draw_string
vik_viewport_draw_string(v, x1, y1) ==
  IF x1 > -100 /\ x1 < v.width + 100 /\ y1 > -100 /\ y1 < v.height + 100
  THEN Drawn(v, << "gdk_draw_string" >>)
  ELSE Drawn(v, << >>)

\* vik_viewport_draw_layout
vik_viewport_draw_layout(v, x, y) ==
  IF x > -100 /\ x < v.width + 100 /\ y > -100 /\ y < v.height + 100
  THEN Drawn(v, << "gdk_draw_layout" >>)
  ELSE Drawn(v, << >>)

\* vik_viewport_draw_pixbuf
vik_viewport_draw_pixbuf(v, dest_x, dest_y, w, h) ==
  Drawn(v, << "gdk_draw_pixbuf" >>)

\* vik_viewport_draw_arc
vik_viewport_draw_arc(v, x, y, width, height) ==
  Drawn(v, << "gdk_draw_arc" >>)

\* vik_viewport_draw_polygon: points is a sequence of <<x, y>>
vik_viewport_draw_polygon(v, points) ==
  Drawn(v, << "gdk_draw_polygon" >>)

\* vik_viewport_draw_pixbuf_with_alpha
vik_viewport_draw_pixbuf_with_alpha(v, alpha, dest_x, dest_y, w, h) ==
  IF alpha = 0 THEN Drawn(v, << >>)
  ELSE
    LET grow == w > v.alpha_pixbuf_width \/ h > v.alpha_pixbuf_height
        v1   == IF grow
                THEN [v EXCEPT
                        !.alpha_pixbuf_width = ToGUInt8(Max(w, v.alpha_pixbuf_width)),
                        !.alpha_pixbuf_height = ToGUInt8(Max(h, v.alpha_pixbuf_height)),
                        !.alpha_pixbuf = v.alpha_pixbuf + 1]
                ELSE v
        real_dest_x == Max(dest_x, 0)
        real_dest_y == Max(dest_y, 0)
        w1   == Min(w, v1.width - dest_x) - (real_dest_x - dest_x)
        h1   == Min(h, v1.height - dest_y) - (real_dest_y - dest_y)
        last == vik_viewport_draw_pixbuf(v1, real_dest_x, real_dest_y, w1, h1)
    IN  Drawn(last.v,
              (IF grow THEN << "gdk_pixbuf_new" >> ELSE << >>)
                \o << "gdk_pixbuf_get_from_drawable", "gdk_pixbuf_composite" >>
                \o last.prims)

---------------------------------------------------------------------------
(* Arguments the calls are explored with *)

\* zoom arguments: below range, the lower bound, inside, the upper bound, above
ZoomArgs ==
  { VIK_VIEWPORT_MIN_ZOOM \div 2, VIK_VIEWPORT_MIN_ZOOM, 8 * FX,
    VIK_VIEWPORT_MAX_ZOOM, VIK_VIEWPORT_MAX_ZOOM * 2 }

\* widget sizes
SizeArgs == { <<800, 600>>, <<400, 300>> }

\* pixels to recentre on
PixelArgs == { <<0, 0>>, <<800, 300>> }

\* 45N 9E, and 30S 70.5W
LatLonArgs ==
  { LatLonOf(45 * FX, 9 * FX), LatLonOf((-30) * FX, (-70) * FX - FX \div 2) }

\* a point in the middle of zone 32, one east of the edge of zone 31, and
\* the middles of the first and of the last zone
UTMArgs ==
  { UTMOf(5000000 * FX, 500000 * FX, 32, "N"),
    UTMOf(1000000 * FX, 900000 * FX, 31, "N"),
    UTMOf(5000000 * FX, 500000 * FX, 1, "N"),
    UTMOf(5000000 * FX, 500000 * FX, 60, "N") }

\* coordinates of either variant
CoordArgs ==
  { VikCoordOf(2000000 * FX, 400000 * FX, 33, "N", VIK_COORD_UTM),
    VikCoordOf(50 * FX, 20 * FX, 0, "?", VIK_COORD_LATLON) }

\* coordinates to project: in zones 30 to 33, the last one tagged LatLon
TargetArgs ==
  { VikCoordOf(0, 500000 * FX, 30, "N", VIK_COORD_UTM),
    VikCoordOf(1000000 * FX, 700000 * FX, 31, "N", VIK_COORD_UTM),
    VikCoordOf(0, 200000 * FX, 32, "N", VIK_COORD_UTM),
    VikCoordOf(5000000 * FX, 400000 * FX, 32, "N", VIK_COORD_UTM),
    VikCoordOf(2000000 * FX, 400000 * FX, 33, "N", VIK_COORD_UTM),
    VikCoordOf(45 * FX, 10 * FX, 0, "?", VIK_COORD_LATLON) }

\* offsets (latitude, longitude) from the centre, in fixed-point units, of
\* the points to project in the LatLon modes
OffsetArgs == { <<0, 0>>, <<1, 1>>, <<2, -3>>, <<-20, 10>>, <<-7, 25>> }

\* pixel coordinates of drawing requests: beyond the 100 pixel margin, beyond
\* the 10 pixel margin, inside it, on the screen, and right of and below it
PixelCoordArgs == { -200, -50, -5, 50, 1000 }

\* end points of lines
LineCoordArgs == { -50, 50, 1000 }

\* widths and heights of rectangles, pixbufs and arcs
ExtentArgs == { 20 }

\* polygons: a triangle on the screen and one far off it
PolygonArgs ==
  { << <<10, 10>>, <<50, 10>>, <<30, 40>> >>,
    << <<-500, -500>>, <<-400, -500>>, <<-450, -400>> >> }

\* alpha values: transparent and half
AlphaArgs == { 0, 128 }

\* widths and heights of pixbufs drawn with alpha, around the 8 bit limit
AlphaSizeArgs == { 100, 255, 300 }

\* destination of the pixbufs drawn with alpha
AlphaDestArgs == { <<-5, 10>> }

---------------------------------------------------------------------------
(* Downloads: curl_download.c (src/unnamed/part_000).  The process has one *)
(* main thread, which calls curl_download_init, and MaxThreads worker      *)
(* threads, which call curl_download_uri.  The statics of get_cookie_file, *)
(* the cookie file on disk and each thread's position are one record.      *)
(* Memory is sequentially consistent: a step reads what the last step      *)
(* wrote.                                                                  *)

\* number of worker threads
MaxThreads == 3

Threads == 1 .. MaxThreads

\* static GMutex *mutex: not created, unlocked, or the thread that holds it
MUTEX_NULL == -1

MUTEX_FREE == 0

\* the positions of a worker thread inside curl_download_uri
\*   idle     not in a call (res holds what the last call returned)
\*   assert   at g_assert(cookie_file != NULL), the handle and options set
\*   lock     at g_mutex_lock
\*   test     at g_file_test
\*   fetch    at the curl_easy_perform of the cookie request
\*   failed   at the g_unlink that follows a failed cookie request
\*   cleanup  at the curl_easy_cleanup of the cookie request
\*   unlock   at g_mutex_unlock
\*   perform  back in curl_download_uri, at its curl_easy_perform
Positions ==
  {"idle", "assert", "lock", "test", "fetch", "failed", "cleanup", "unlock",
   "perform"}

\* the positions between g_mutex_lock and g_mutex_unlock
LockedSection == {"test", "fetch", "failed", "cleanup", "unlock"}

\* the positions of the branch taken when the cookie file is missing
PopulateSection == {"fetch", "failed", "cleanup"}

\* what curl_easy_perform returns: CURLE_OK or any other code
PerformResults == {"CURLE_OK", "CURLE_OTHER"}

\* the process before main has called anything: exists tells whether a
\* cookie file of an earlier run is on disk; res is what the last
\* curl_download_uri of a thread returned and ret what curl_download_get_url
\* made of it
CurlStart(exists) ==
  [ cookie_file |-> "NULL",
    mutex       |-> MUTEX_NULL,
    file        |-> exists,
    jar         |-> FALSE,
    main        |-> "start",
    aborted     |-> FALSE,
    pc          |-> [t \in Threads |-> "idle"],
    res         |-> [t \in Threads |-> "none"],
    ret         |-> [t \in Threads |-> 0] ]

\* get_cookie_file(TRUE), first statement: mutex = g_mutex_new()
get_cookie_file_init_mutex(c) ==
  [c EXCEPT !.mutex = MUTEX_FREE, !.main = "build"]

\* get_cookie_file(TRUE): cookie_file = g_build_filename(...)
get_cookie_file_init_name(c) ==
  [c EXCEPT !.cookie_file = "cookies.txt", !.main = "unlink"]

\* get_cookie_file(TRUE): g_unlink(cookie_file); return NULL
get_cookie_file_init_unlink(c) ==
  [c EXCEPT !.file = FALSE, !.main = "done"]

\* curl_download_uri up to the call of get_cookie_file: curl_easy_init gives
\* a handle (got) or NULL; without a handle the call returns at once
curl_download_uri_enter(c, t, got) ==
  IF got
    THEN [c EXCEPT !.pc[t] = "assert", !.res[t] = "none"]
    ELSE [c EXCEPT !.res[t] = "CURLE_FAILED_INIT"]

\* g_assert compiled to nothing: the thread goes on with any cookie_file
get_cookie_file_no_assert(c, t) ==
  [c EXCEPT !.pc[t] = "lock"]

\* g_assert(cookie_file != NULL): the process aborts when it fails
get_cookie_file_assert(c, t) ==
  IF c.cookie_file # "NULL"
    THEN [c EXCEPT !.pc[t] = "lock"]
    ELSE [c EXCEPT !.aborted = TRUE]

\* g_mutex_lock without the wait: the thread goes on whoever holds the mutex
get_cookie_file_no_lock(c, t) ==
  {[c EXCEPT !.pc[t] = "test"]}

\* g_mutex_lock(mutex): the thread goes on once it holds the mutex; the set
\* is empty while another thread holds it
get_cookie_file_lock(c, t) ==
  IF c.mutex = MUTEX_FREE
    THEN {[c EXCEPT !.mutex = t, !.pc[t] = "test"]}
    ELSE {}

\* if (g_file_test(cookie_file, G_FILE_TEST_EXISTS) == FALSE)
get_cookie_file_test(c, t) ==
  IF c.file
    THEN [c EXCEPT !.pc[t] = "unlock"]
    ELSE [c EXCEPT !.pc[t] = "fetch"]

\* the cookie request: res is what curl_easy_perform returned and cookies
\* tells whether the server set any (they are kept in the handle)
get_cookie_file_fetch(c, t, res, cookies) ==
  [c EXCEPT !.jar = cookies,
            !.pc[t] = IF res # "CURLE_OK" THEN "failed" ELSE "cleanup"]

\* g_warning(...); g_unlink(cookie_file)
get_cookie_file_failed(c, t) ==
  [c EXCEPT !.file = FALSE, !.pc[t] = "cleanup"]

\* curl_easy_cleanup(curl); fclose(out_file): a handle that was given
\* CURLOPT_COOKIEJAR writes the cookies it holds to that file when it is
\* cleaned up
get_cookie_file_cleanup(c, t) ==
  [c EXCEPT !.file = c.file \/ c.jar, !.jar = FALSE, !.pc[t] = "unlock"]

\* faulty variant for C31: the function returns with the mutex still held
get_cookie_file_keep_lock(c, t) ==
  [c EXCEPT !.pc[t] = "perform"]

\* g_mutex_unlock(mutex); return(cookie_file)
get_cookie_file_unlock(c, t) ==
  [c EXCEPT !.mutex = MUTEX_FREE, !.pc[t] = "perform"]

\* res = curl_easy_perform(curl); curl_easy_cleanup(curl); return(res)
curl_download_uri_perform(c, t, res) ==
  [c EXCEPT !.pc[t] = "idle", !.res[t] = res]

\* the value of a CURLcode: CURLE_OK is 0, CURLE_FAILED_INIT is 2, and
\* CURLE_COULDNT_CONNECT (7) stands for the other codes, all of them nonzero
CURLcode(res) ==
  CASE res = "CURLE_OK" -> 0
    [] res = "CURLE_FAILED_INIT" -> 2
    [] OTHER -> 7

\* faulty variant for C29: the CURLcode is returned as it is
curl_download_get_url_raw(c, t) ==
  IF c.pc[t] = "idle"
    THEN [c EXCEPT !.ret[t] = CURLcode(c.res[t])]
    ELSE [c EXCEPT !.ret[t] = 0]

\* curl_download_get_url around a step of its curl_download_uri: once that
\* has returned, ret = curl_download_uri(...); return (ret ? -2 : 0).  Until
\* then ret is not assigned (and not read): it is shown as 0
curl_download_get_url(c, t) ==
  IF c.pc[t] = "idle"
    THEN [c EXCEPT !.ret[t] = IF CURLcode(c.res[t]) # 0 THEN -2 ELSE 0]
    ELSE [c EXCEPT !.ret[t] = 0]

---------------------------------------------------------------------------
(* Routing: the base class VikRoutingEngine (src/src/vikroutingengine.c up *)
(* to line 281).  An engine is its class's two virtual functions and its   *)
(* format property; babel.c, which converts the URL into a track, is not   *)
(* part of the source at hand and its outcome is left open.                *)

\* a gchar *uri: NULL, or the URL of the route between two places
NULL_URL == [null |-> TRUE, from |-> LatLonOf(0, 0), to |-> LatLonOf(0, 0)]

\* engines: get_url_for_coords is NULL (as vik_routing_engine_class_init
\* leaves it), or an implementation that returns a URL ("url") or NULL
\* ("null"); get_download_options is the default, an implementation that
\* returns options, or NULL
EngineArgs ==
  [ get_url_for_coords   : {"NULL", "url", "null"},
    get_download_options : {"default", "custom", "NULL"},
    format               : {"gpx", "kml"} ]

\* before any call of vik_routing_engine_find: finds counts the calls,
\* conversions the calls of a_babel_convert_from_url; uri, format and
\* options are the arguments of the last conversion and converted its
\* outcome, and ret is what the last find returned
RouteStart ==
  [ finds |-> 0, conversions |-> 0, uri |-> NULL_URL, format |-> "",
    options |-> "NULL", converted |-> FALSE, ret |-> 0 ]

\* vik_routing_engine_get_url_for_coords
vik_routing_engine_get_url_for_coords(self, start, end) ==
  IF self.get_url_for_coords = "NULL" THEN NULL_URL
  ELSE IF self.get_url_for_coords = "url"
       THEN [null |-> FALSE, from |-> start, to |-> end]
       ELSE NULL_URL

\* vik_routing_engine_get_download_options
vik_routing_engine_get_download_options(self) ==
  IF self.get_download_options = "NULL" THEN "NULL"
  ELSE IF self.get_download_options = "default" THEN "NULL"
       ELSE "options"

\* faulty variant for C32: without a URL the conversion is skipped and an
\* error returned
vik_routing_engine_find_checked(r, self, start, end, outcome) ==
  LET uri == vik_routing_engine_get_url_for_coords(self, start, end)
  IN  IF uri.null
      THEN [r EXCEPT !.finds = r.finds + 1, !.ret = -1]
      ELSE [r EXCEPT !.finds = r.finds + 1,
                     !.conversions = r.conversions + 1,
                     !.uri = uri,
                     !.format = self.format,
                     !.options = vik_routing_engine_get_download_options(self),
                     !.converted = outcome,
                     !.ret = 0]

\* vik_routing_engine_find: outcome is what a_babel_convert_from_url returns
vik_routing_engine_find(r, self, start, end, outcome) ==
  LET ret     == 0
      uri     == vik_routing_engine_get_url_for_coords(self, start, end)
      options == vik_routing_engine_get_download_options(self)
      format  == self.format
  IN  [r EXCEPT !.finds = r.finds + 1,
                !.conversions = r.conversions + 1,
                !.uri = uri,
                !.format = format,
                !.options = options,
                !.converted = outcome,
                !.ret = ret]

---------------------------------------------------------------------------
(* The state machine *)

\* the argument record of a call: two integers, a draw mode, a coordinate
NoCoord == VikCoordOf(0, 0, 0, "", "")

Args(a, b, m, c) == [a |-> a, b |-> b, m |-> m, c |-> c]

IntArgs(a, b) == Args(a, b, "", NoCoord)

\* the drawing surface before any drawing call: the four numbers of the last
\* request, the primitives it led to, and the largest width and height asked
\* of draw_pixbuf_with_alpha so far
NoDrawing == [args |-> <<0, 0, 0, 0>>, prims |-> << >>, maxw |-> 0, maxh |-> 0]

Init ==
  /\ vvp = viewport_init
  /\ lastOp = [op |-> "new", arg |-> IntArgs(0, 0)]
  /\ calls = 0
  /\ gdk = NoDrawing
  /\ curl = CurlStart(FALSE)
  /\ ra = [viewport_init_ra(RaStart) EXCEPT !.viewports = 1]
  /\ route = RouteStart

\* one call: the viewport becomes one of `after`
Call(op, arg, after) ==
  /\ calls < MaxCalls
  /\ vvp' \in after
  /\ lastOp' = [op |-> op, arg |-> arg]
  /\ calls' = calls + 1
  /\ UNCHANGED <<gdk, curl, ra, route>>

Configure ==
  \E s \in SizeArgs :
    Call("configure", IntArgs(s[1], s[2]), vik_viewport_configure(vvp, s[1], s[2]))

ConfigureManually ==
  \E s \in SizeArgs :
    Call("configure_manually", IntArgs(s[1], s[2]),
         vik_viewport_configure_manually(vvp, s[1], s[2]))

SetZoom ==
  \E z \in ZoomArgs : Call("set_zoom", IntArgs(z, 0), vik_viewport_set_zoom(vvp, z))

ZoomIn == Call("zoom_in", IntArgs(0, 0), vik_viewport_zoom_in(vvp))

ZoomOut == Call("zoom_out", IntArgs(0, 0), vik_viewport_zoom_out(vvp))

SetXmpp ==
  \E z \in ZoomArgs : Call("set_xmpp", IntArgs(z, 0), vik_viewport_set_xmpp(vvp, z))

SetYmpp ==
  \E z \in ZoomArgs : Call("set_ympp", IntArgs(z, 0), vik_viewport_set_ympp(vvp, z))

SetCenterLatLon ==
  \E ll \in LatLonArgs :
    Call("set_center_latlon",
         Args(0, 0, "", VikCoordOf(ll.lat, ll.lon, 0, "", VIK_COORD_LATLON)),
         vik_viewport_set_center_latlon(vvp, ll))

SetCenterUTM ==
  \E utm \in UTMArgs :
    Call("set_center_utm",
         Args(0, 0, "", VikCoordOf(utm.northing, utm.easting, utm.zone, utm.letter,
                                   VIK_COORD_UTM)),
         vik_viewport_set_center_utm(vvp, utm))

SetCenterCoord ==
  \E c \in CoordArgs :
    Call("set_center_coord", Args(0, 0, "", c), vik_viewport_set_center_coord(vvp, c))

SetCenterScreen ==
  \E p \in PixelArgs :
    Call("set_center_screen", IntArgs(p[1], p[2]),
         vik_viewport_set_center_screen(vvp, p[1], p[2]))

SetDrawmode ==
  \E m \in DrawModes :
    Call("set_drawmode", Args(0, 0, m, NoCoord), vik_viewport_set_drawmode(vvp, m))

Next ==
  \/ Configure
  \/ ConfigureManually
  \/ SetZoom
  \/ ZoomIn
  \/ ZoomOut
  \/ SetXmpp
  \/ SetYmpp
  \/ SetCenterLatLon
  \/ SetCenterUTM
  \/ SetCenterCoord
  \/ SetCenterScreen
  \/ SetDrawmode

Spec == Init /\ [][Next]_vars

---------------------------------------------------------------------------
(* Drawing on a sized viewport *)

\* a viewport that was created and given the size of its widget
InitDraw ==
  /\ \E s \in SizeArgs : vvp \in vik_viewport_configure(viewport_init, s[1], s[2])
  /\ lastOp = [op |-> "configure", arg |-> IntArgs(0, 0)]
  /\ calls = 0
  /\ gdk = NoDrawing
  /\ curl = CurlStart(FALSE)
  /\ ra = [viewport_init_ra(RaStart) EXCEPT !.viewports = 1]
  /\ route = RouteStart

\* one drawing call with the numbers args: d is what it yields
DrawCall(op, a, args, d, maxw, maxh) ==
  /\ calls < MaxCalls
  /\ vvp' = d.v
  /\ lastOp' = [op |-> op, arg |-> IntArgs(a, 0)]
  /\ calls' = calls + 1
  /\ gdk' = [args |-> args, prims |-> d.prims, maxw |-> maxw, maxh |-> maxh]
  /\ UNCHANGED <<curl, ra, route>>

DrawLine ==
  \E x1 \in LineCoordArgs, y1 \in LineCoordArgs,
     x2 \in LineCoordArgs, y2 \in LineCoordArgs :
    DrawCall("draw_line", 0, <<x1, y1, x2, y2>>,
             vik_viewport_draw_line(vvp, x1, y1, x2, y2), gdk.maxw, gdk.maxh)

DrawRectangle ==
  \E x1 \in PixelCoordArgs, y1 \in PixelCoordArgs, x2 \in ExtentArgs, y2 \in ExtentArgs :
    DrawCall("draw_rectangle", 0, <<x1, y1, x2, y2>>,
             vik_viewport_draw_rectangle(vvp, x1, y1, x2, y2), gdk.maxw, gdk.maxh)

DrawString ==
  \E x1 \in PixelCoordArgs, y1 \in PixelCoordArgs :
    DrawCall("draw_string", 0, <<x1, y1, 0, 0>>,
             vik_viewport_draw_string(vvp, x1, y1), gdk.maxw, gdk.maxh)

DrawLayout ==
  \E x \in PixelCoordArgs, y \in PixelCoordArgs :
    DrawCall("draw_layout", 0, <<x, y, 0, 0>>,
             vik_viewport_draw_layout(vvp, x, y), gdk.maxw, gdk.maxh)

DrawPixbuf ==
  \E x \in PixelCoordArgs, y \in PixelCoordArgs, w \in ExtentArgs, h \in ExtentArgs :
    DrawCall("draw_pixbuf", 0, <<x, y, w, h>>,
             vik_viewport_draw_pixbuf(vvp, x, y, w, h), gdk.maxw, gdk.maxh)

DrawArc ==
  \E x \in PixelCoordArgs, y \in PixelCoordArgs, w \in ExtentArgs, h \in ExtentArgs :
    DrawCall("draw_arc", 0, <<x, y, w, h>>,
             vik_viewport_draw_arc(vvp, x, y, w, h), gdk.maxw, gdk.maxh)

\* the request recorded for a polygon is its first and last point
DrawPolygon ==
  \E pts \in PolygonArgs :
    DrawCall("draw_polygon", 0,
             <<pts[1][1], pts[1][2], pts[Len(pts)][1], pts[Len(pts)][2]>>,
             vik_viewport_draw_polygon(vvp, pts), gdk.maxw, gdk.maxh)

DrawPixbufWithAlpha ==
  \E alpha \in AlphaArgs, d \in AlphaDestArgs, w \in AlphaSizeArgs, h \in AlphaSizeArgs :
    DrawCall("draw_pixbuf_with_alpha", alpha, <<d[1], d[2], w, h>>,
             vik_viewport_draw_pixbuf_with_alpha(vvp, alpha, d[1], d[2], w, h),
             IF alpha = 0 THEN gdk.maxw ELSE Max(gdk.maxw, w),
             IF alpha = 0 THEN gdk.maxh ELSE Max(gdk.maxh, h))

NextDraw ==
  \/ DrawLine
  \/ DrawRectangle
  \/ DrawString
  \/ DrawLayout
  \/ DrawPixbuf
  \/ DrawArc
  \/ DrawPolygon
  \/ DrawPixbufWithAlpha

SpecDraw == InitDraw /\ [][NextDraw]_vars

---------------------------------------------------------------------------
(* The downloads as a state machine: the main thread and the worker        *)
(* threads take one step at a time, in any order; the workers call         *)
(* curl_download_uri through curl_download_get_url.  Nothing in the file   *)
(* makes a worker wait for curl_download_init, so a worker may start       *)
(* before it.                                                              *)

InitCurl ==
  /\ vvp = viewport_init
  /\ lastOp = [op |-> "new", arg |-> IntArgs(0, 0)]
  /\ calls = 0
  /\ gdk = NoDrawing
  /\ \E exists \in BOOLEAN : curl = CurlStart(exists)
  /\ ra = RaStart
  /\ route = RouteStart

\* one step of the process: it takes none once it has aborted
CurlStep(after) ==
  /\ ~curl.aborted
  /\ curl' = after
  /\ UNCHANGED <<vvp, lastOp, calls, gdk, ra, route>>

\* curl_download_init: curl_global_init, then get_cookie_file(TRUE)
InitMutex ==
  /\ curl.main = "start"
  /\ CurlStep(get_cookie_file_init_mutex(curl))

InitName ==
  /\ curl.main = "build"
  /\ CurlStep(get_cookie_file_init_name(curl))

InitUnlink ==
  /\ curl.main = "unlink"
  /\ CurlStep(get_cookie_file_init_unlink(curl))

UriEnter ==
  \E t \in Threads, got \in BOOLEAN :
    /\ curl.pc[t] = "idle"
    /\ CurlStep(curl_download_get_url(curl_download_uri_enter(curl, t, got), t))

CookieAssert ==
  \E t \in Threads :
    /\ curl.pc[t] = "assert"
    /\ CurlStep(get_cookie_file_assert(curl, t))

CookieLock ==
  \E t \in Threads :
    /\ curl.pc[t] = "lock"
    /\ \E after \in get_cookie_file_lock(curl, t) : CurlStep(after)

CookieTest ==
  \E t \in Threads :
    /\ curl.pc[t] = "test"
    /\ CurlStep(get_cookie_file_test(curl, t))

CookieFetch ==
  \E t \in Threads, res \in PerformResults, cookies \in BOOLEAN :
    /\ curl.pc[t] = "fetch"
    /\ CurlStep(get_cookie_file_fetch(curl, t, res, cookies))

CookieFailed ==
  \E t \in Threads :
    /\ curl.pc[t] = "failed"
    /\ CurlStep(get_cookie_file_failed(curl, t))

CookieCleanup ==
  \E t \in Threads :
    /\ curl.pc[t] = "cleanup"
    /\ CurlStep(get_cookie_file_cleanup(curl, t))

CookieUnlock ==
  \E t \in Threads :
    /\ curl.pc[t] = "unlock"
    /\ CurlStep(get_cookie_file_unlock(curl, t))

UriPerform ==
  \E t \in Threads, res \in PerformResults :
    /\ curl.pc[t] = "perform"
    /\ CurlStep(curl_download_get_url(curl_download_uri_perform(curl, t, res), t))

NextCurl ==
  \/ InitMutex
  \/ InitName
  \/ InitUnlink
  \/ UriEnter
  \/ CookieAssert
  \/ CookieLock
  \/ CookieTest
  \/ CookieFetch
  \/ CookieFailed
  \/ CookieCleanup
  \/ CookieUnlock
  \/ UriPerform

SpecCurl == InitCurl /\ [][NextCurl]_vars

\* a step of thread t from a statement it can always execute: every
\* position inside a call except the wait at g_mutex_lock
Runs(t) ==
  /\ curl.pc[t] \notin {"idle", "lock"}
  /\ NextCurl
  /\ curl'.pc[t] # curl.pc[t]

\* thread t leaves g_mutex_lock with the mutex
Acquires(t) ==
  /\ curl.pc[t] = "lock"
  /\ NextCurl
  /\ curl'.pc[t] = "test"

\* fair scheduling: a thread inside a call goes on running (its transfers
\* return), and a thread waiting for a mutex that is free again and again
\* gets it at some point.  No thread has to start a call, and the main
\* thread does not have to go on.
SpecCurlFair ==
  /\ SpecCurl
  /\ \A t \in Threads : WF_vars(Runs(t)) /\ SF_vars(Acquires(t))

---------------------------------------------------------------------------
(* Viewports from the start of the process: vik_viewport_new runs          *)
(* viewport_init, which first calls viewport_init_ra.  vvp is the viewport *)
(* created last; the calls of the viewport need one to exist.              *)

InitRa ==
  /\ vvp = viewport_init
  /\ lastOp = [op |-> "none", arg |-> IntArgs(0, 0)]
  /\ calls = 0
  /\ gdk = NoDrawing
  /\ curl = CurlStart(FALSE)
  /\ ra = RaStart
  /\ route = RouteStart

\* vik_viewport_new: g_object_new runs viewport_init on a zero-filled instance
ViewportNew ==
  /\ calls < MaxCalls
  /\ ra' = [viewport_init_ra(ra) EXCEPT !.viewports = ra.viewports + 1]
  /\ vvp' = viewport_init
  /\ lastOp' = [op |-> "new", arg |-> IntArgs(0, 0)]
  /\ calls' = calls + 1
  /\ UNCHANGED <<gdk, curl, route>>

NextRa ==
  \/ ViewportNew
  \/ ra.viewports > 0 /\ Next

SpecRa == InitRa /\ [][NextRa]_vars

---------------------------------------------------------------------------
(* Routing requests: calls of vik_routing_engine_find on engines of every  *)
(* kind, between the places of LatLonArgs.  lastOp.arg.m names the         *)
(* engine's get_url_for_coords.                                            *)

InitRoute ==
  /\ vvp = viewport_init
  /\ lastOp = [op |-> "none", arg |-> IntArgs(0, 0)]
  /\ calls = 0
  /\ gdk = NoDrawing
  /\ curl = CurlStart(FALSE)
  /\ ra = RaStart
  /\ route = RouteStart

Find ==
  \E self \in EngineArgs, start \in LatLonArgs, end \in LatLonArgs,
     outcome \in BOOLEAN :
    /\ calls < MaxCalls
    /\ route' = vik_routing_engine_find(route, self, start, end, outcome)
    /\ lastOp' = [op |-> "find",
                  arg |-> Args(0, 0, self.get_url_for_coords, NoCoord)]
    /\ calls' = calls + 1
    /\ UNCHANGED <<vvp, gdk, curl, ra>>

SpecRoute == InitRoute /\ [][Find]_vars

---------------------------------------------------------------------------
(* Properties *)

InZoomRange(z) == z >= VIK_VIEWPORT_MIN_ZOOM /\ z <= VIK_VIEWPORT_MAX_ZOOM

\* the calls that take a zoom value as argument
ZoomSetters == {"set_zoom", "set_xmpp", "set_ympp"}

\* the calls that can change the centre or the zoom
ZoomOrCenterOps ==
  ZoomSetters \cup
  {"zoom_in", "zoom_out", "set_center_latlon", "set_center_utm",
   "set_center_coord", "set_center_screen"}

\* C1: after any sequence of calls, with arguments inside and outside the
\* zoom range, xmpp and ympp both lie in [MIN_ZOOM, MAX_ZOOM].
C1_ZoomInRange == InZoomRange(vvp.xmpp) /\ InZoomRange(vvp.ympp)

\* C1 witness: set_xmpp was called with a value above MAX_ZOOM while xmpp was
\* at MAX_ZOOM, and xmpp is still at MAX_ZOOM.
C1_Witness ==
  /\ lastOp.op = "set_xmpp"
  /\ lastOp.arg.a > VIK_VIEWPORT_MAX_ZOOM
  /\ vvp.xmpp = VIK_VIEWPORT_MAX_ZOOM

\* C2: the variant tag of the stored centre equals coord_mode in every
\* reachable state, whatever variant the set_center_* calls were given.
C2_CenterModeIsCoordMode == vvp.center.mode = vvp.coord_mode

\* C3: coord_mode is UTM exactly when the draw mode is UTM, and LatLon for
\* the four other draw modes; the two never change apart.
C3_CoordModeFollowsDrawMode ==
  vvp.coord_mode = IF vvp.drawmode = VIK_VIEWPORT_DRAWMODE_UTM
                   THEN VIK_COORD_UTM ELSE VIK_COORD_LATLON

\* C3 witness: set_drawmode has switched a viewport to Google and LatLon.
C3_Witness ==
  /\ lastOp.op = "set_drawmode"
  /\ vvp.drawmode = VIK_VIEWPORT_DRAWMODE_GOOGLE
  /\ vvp.coord_mode = VIK_COORD_LATLON

\* C4: right after set_drawmode(UTM), utm_zone_width and one_utm_zone are
\* what the zone recheck computes from the state the call leaves.
C4_DrawmodeUTMRecomputesCaches ==
  (lastOp.op = "set_drawmode" /\ lastOp.arg.m = VIK_VIEWPORT_DRAWMODE_UTM)
    => \E w \in viewport_utm_zone_check(vvp) :
         /\ w.utm_zone_width = vvp.utm_zone_width
         /\ w.one_utm_zone = vvp.one_utm_zone

\* C5: in Google draw mode the four cached factors are those of the current
\* zoom: K*65536*0.7716245833877/xmpp, K*65536/ympp, and their reciprocals.
C5_GoogleFactorsCurrent ==
  vvp.drawmode = VIK_VIEWPORT_DRAWMODE_GOOGLE =>
    /\ vvp.google_calcx_fact = Rat(GoogleXNum, vvp.xmpp)
    /\ vvp.google_calcy_fact = Rat(GoogleYNum, vvp.ympp)
    /\ vvp.google_calcx_rev_fact = RatInv(vvp.google_calcx_fact)
    /\ vvp.google_calcy_rev_fact = RatInv(vvp.google_calcy_fact)

\* C5 witness: in Google mode set_xmpp has made the two zooms differ.
C5_Witness ==
  /\ vvp.drawmode = VIK_VIEWPORT_DRAWMODE_GOOGLE
  /\ lastOp.op = "set_xmpp"
  /\ vvp.xmpp = lastOp.arg.a
  /\ vvp.xmpp # vvp.ympp

\* C6: a zoom or centre call that changes the centre or the zoom while
\* coord_mode is UTM leaves utm_zone_width equal to the zone width computed
\* from the centre, ympp and height it leaves.
C6_ZoneWidthRecomputed ==
  [][ ( /\ lastOp'.op \in ZoomOrCenterOps
        /\ vvp.coord_mode = VIK_COORD_UTM
        /\ \/ vvp'.center # vvp.center
           \/ vvp'.xmpp # vvp.xmpp
           \/ vvp'.ympp # vvp.ympp )
      => vvp'.utm_zone_width = viewport_utm_zone_width(vvp') ]_vars

\* C6 witness: zoom_out has doubled the zoom of a sized viewport in UTM mode.
C6_Witness ==
  /\ lastOp.op = "zoom_out"
  /\ vvp.coord_mode = VIK_COORD_UTM
  /\ vvp.height > 0
  /\ vvp.ympp = VIK_VIEWPORT_MAX_ZOOM
  /\ vvp.utm_zone_width > 0

\* C7: in every state with coord_mode UTM, one_utm_zone is true exactly when
\* the leftmost and the rightmost zone are the same (where their evaluation
\* is undefined, for some outcome of it).
C7_OneZoneIffEdgesAgree ==
  vvp.coord_mode = VIK_COORD_UTM =>
    \E l \in vik_viewport_leftmost_zone(vvp), r \in vik_viewport_rightmost_zone(vvp) :
      vvp.one_utm_zone <=> (l = r)

\* C8: set_zoom, set_xmpp and set_ympp called with a value outside
\* [MIN_ZOOM, MAX_ZOOM] leave every field of the viewport as it was.
C8_OutOfRangeIgnored ==
  [][ (lastOp'.op \in ZoomSetters /\ ~InZoomRange(lastOp'.arg.a)) => vvp' = vvp ]_vars

\* C9: zoom_in changes nothing when xmpp or ympp is below 2*MIN_ZOOM,
\* zoom_out changes nothing when xmpp or ympp is above MAX_ZOOM/2, and a call
\* that does act halves (doubles) both values exactly, never clamping.
C9_ZoomStepSkippedOrExact ==
  [][ /\ lastOp'.op = "zoom_in" =>
           IF vvp.xmpp < VIK_VIEWPORT_MIN_ZOOM * 2 \/ vvp.ympp < VIK_VIEWPORT_MIN_ZOOM * 2
           THEN vvp' = vvp
           ELSE vvp'.xmpp * 2 = vvp.xmpp /\ vvp'.ympp * 2 = vvp.ympp
      /\ lastOp'.op = "zoom_out" =>
           IF vvp.xmpp * 2 > VIK_VIEWPORT_MAX_ZOOM \/ vvp.ympp * 2 > VIK_VIEWPORT_MAX_ZOOM
           THEN vvp' = vvp
           ELSE vvp'.xmpp = vvp.xmpp * 2 /\ vvp'.ympp = vvp.ympp * 2 ]_vars

\* C9 witness: zoom_in was called with xmpp well inside the range and ympp
\* at MIN_ZOOM, and both are as they were.
C9_Witness ==
  /\ lastOp.op = "zoom_in"
  /\ vvp.xmpp = 8 * FX
  /\ vvp.ympp = VIK_VIEWPORT_MIN_ZOOM

\* C10: after set_zoom(z) with z in range get_zoom() returns z, and get_zoom()
\* returns 0.0 whenever xmpp and ympp differ.
C10_SetZoomGetZoom ==
  /\ (lastOp.op = "set_zoom" /\ InZoomRange(lastOp.arg.a))
       => vik_viewport_get_zoom(vvp) = lastOp.arg.a
  /\ vvp.xmpp # vvp.ympp => vik_viewport_get_zoom(vvp) = 0

\* C10 witness: set_zoom(MAX_ZOOM) has acted on a sized viewport in UTM mode
\* and get_zoom() returns MAX_ZOOM.
C10_Witness ==
  /\ lastOp.op = "set_zoom"
  /\ lastOp.arg.a = VIK_VIEWPORT_MAX_ZOOM
  /\ vik_viewport_get_zoom(vvp) = VIK_VIEWPORT_MAX_ZOOM
  /\ vvp.drawmode = VIK_VIEWPORT_DRAWMODE_UTM
  /\ vvp.width > 0

\* zoom_in can act on v
CanZoomIn(v) ==
  v.xmpp >= VIK_VIEWPORT_MIN_ZOOM * 2 /\ v.ympp >= VIK_VIEWPORT_MIN_ZOOM * 2

\* zoom_out can act on v
CanZoomOut(v) ==
  v.xmpp <= VIK_VIEWPORT_MAX_ZOOM \div 2 /\ v.ympp <= VIK_VIEWPORT_MAX_ZOOM \div 2

\* C11: from every reachable state in which zoom_in acts, zoom_in() followed
\* by zoom_out() leaves xmpp and ympp exactly as they were, and from every
\* state in which zoom_out acts, so does zoom_out() followed by zoom_in().
C11_ZoomInOutRoundTrip ==
  /\ CanZoomIn(vvp) =>
       \A w \in vik_viewport_zoom_in(vvp) :
         /\ CanZoomOut(w)
         /\ \A u \in vik_viewport_zoom_out(w) :
              u.xmpp = vvp.xmpp /\ u.ympp = vvp.ympp
  /\ CanZoomOut(vvp) =>
       \A w \in vik_viewport_zoom_out(vvp) :
         /\ CanZoomIn(w)
         /\ \A u \in vik_viewport_zoom_in(w) :
              u.xmpp = vvp.xmpp /\ u.ympp = vvp.ympp

\* C11 witness: zoom_in has halved xmpp from MAX_ZOOM while ympp differs from
\* xmpp, and zoom_out from here brings xmpp back to MAX_ZOOM.
C11_Witness ==
  /\ lastOp.op = "zoom_in"
  /\ vvp.xmpp = VIK_VIEWPORT_MAX_ZOOM \div 2
  /\ vvp.ympp # vvp.xmpp
  /\ \E u \in vik_viewport_zoom_out(vvp) :
       u.xmpp = VIK_VIEWPORT_MAX_ZOOM /\ u.ympp = vvp.ympp * 2

\* the sentinel pair
WrongZone == Pixel(VIK_VIEWPORT_UTM_WRONG_ZONE, VIK_VIEWPORT_UTM_WRONG_ZONE)

\* p is the pixel of target t by the planar formula: its offset from the
\* middle of the viewport, times the zoom, is the easting (northing) distance
\* to the centre, shifted by the zone widths between them, to within a pixel
IsPlanarPixel(v, t, p) ==
  LET dx == (t.east_west - v.center.east_west)
            - (v.center.utm_zone - t.utm_zone) * v.utm_zone_width
      dy == t.north_south - v.center.north_south
  IN  /\ ~p.abort
      /\ Abs((p.x - v.width \div 2) * v.xmpp - dx) < v.xmpp
      /\ Abs((v.height \div 2 - p.y) * v.ympp - dy) < v.ympp

\* C12: in UTM mode coord_to_screen returns the sentinel in x and y exactly
\* when the target's zone differs from the centre's and one_utm_zone is set,
\* and otherwise the pixel of the planar formula with the zone shift.
C12_WrongZoneSentinel ==
  vvp.coord_mode = VIK_COORD_UTM =>
    \A c \in TargetArgs :
      LET t == vik_coord_convert(c, VIK_COORD_UTM)
          r == vik_viewport_coord_to_screen(vvp, c)
      IN  IF t.utm_zone # vvp.center.utm_zone /\ vvp.one_utm_zone
          THEN r = { WrongZone }
          ELSE \A p \in r : p # WrongZone /\ IsPlanarPixel(vvp, t, p)

\* C12 witness: a sized single-zone viewport and a target in another zone
\* that gets the sentinel, and a target in the centre's zone that does not.
C12_Witness ==
  /\ vvp.coord_mode = VIK_COORD_UTM
  /\ vvp.one_utm_zone
  /\ vvp.width > 0
  /\ \E c \in TargetArgs :
       /\ c.mode = VIK_COORD_UTM
       /\ c.utm_zone # vvp.center.utm_zone
       /\ vik_viewport_coord_to_screen(vvp, c) = { WrongZone }
  /\ \E c \in TargetArgs :
       /\ c.utm_zone = vvp.center.utm_zone
       /\ \E p \in vik_viewport_coord_to_screen(vvp, c) : p # WrongZone

\* the centre of v moved by the pixel offset of (x, y) from the middle
PannedCenter(v, x, y) ==
  UTMOf(v.center.north_south + v.ympp * (v.height \div 2 - y),
        v.center.east_west + v.xmpp * (x - v.width \div 2),
        v.center.utm_zone, v.center.utm_letter)

\* two positions agree to within one fixed-point unit in each direction,
\* longitudes being taken modulo 360 degrees
SamePoint(a, b) ==
  /\ Abs(a.lat - b.lat) <= 1
  /\ \/ Abs(NormLon(a.lon) - NormLon(b.lon)) <= 1
     \/ Abs(NormLon(a.lon) - NormLon(b.lon)) >= 360 * FX - 1

\* utm is a position of the UTM grid: a zone in 1..60 and a northing of a
\* latitude within the 84 degrees the projection is defined for
InUTMDomain(utm) ==
  /\ utm.zone \in 1..60
  /\ Abs(a_coords_utm_to_latlon(utm).lat) <= UTM_MAX_LAT * FX

\* C13: after set_center_screen in UTM mode the zone of the centre is the zone
\* that converting the centre to LatLon and back to UTM gives, and the centre
\* is the same point on the ground as the panned easting and northing (for
\* every pan that ends on the UTM grid, across zone boundaries included).
C13_PanRenormalisesZone ==
  [][ ( /\ lastOp'.op = "set_center_screen"
        /\ vvp.coord_mode = VIK_COORD_UTM
        /\ InUTMDomain(PannedCenter(vvp, lastOp'.arg.a, lastOp'.arg.b)) )
      => LET c  == VIK_UTM(vvp'.center)
             ll == a_coords_utm_to_latlon(c)
         IN  /\ a_coords_latlon_to_utm(ll).zone = c.zone
             /\ SamePoint(ll, a_coords_utm_to_latlon(
                              PannedCenter(vvp, lastOp'.arg.a, lastOp'.arg.b)))
    ]_vars

\* C13 witness: a pan to the right edge of an 800 pixel wide viewport at zoom
\* 8192 has carried the centre from the 45th parallel of zone 32 east into
\* zone 39, with an easting inside that zone.
C13_Witness ==
  /\ lastOp.op = "set_center_screen"
  /\ lastOp.arg.a = 800
  /\ vvp.coord_mode = VIK_COORD_UTM
  /\ vvp.center.mode = VIK_COORD_UTM
  /\ vvp.xmpp = VIK_VIEWPORT_MAX_ZOOM
  /\ vvp.width = 800
  /\ vvp.center.utm_zone = 39
  /\ vvp.center.utm_letter = "N"
  /\ Abs(vvp.center.east_west - EASTING_OFFSET) * 2 <= vvp.utm_zone_width
  /\ a_coords_utm_to_latlon(VIK_UTM(vvp.center)).lat \in (44 * FX)..(45 * FX)

\* C14: in every reachable state and draw mode, coord_to_screen of the
\* viewport's own centre is (width/2, height/2), never the sentinel; for the
\* fresh viewport sized 800x600 that is (400, 300).
C14_CenterMapsToMiddle ==
  vik_viewport_coord_to_screen(vvp, vvp.center)
    = { Pixel(vvp.width \div 2, vvp.height \div 2) }

\* the coordinates screen_to_coord can deliver for pixel p
ScreenToCoordAt(v, p) ==
  UNION { vik_viewport_screen_to_coord(v, p.x, p.y, tmp) : tmp \in UninitVikCoord }

\* C15: in UTM mode, for every coordinate c in the centre's zone,
\* screen_to_coord(coord_to_screen(c)) is in c's zone, with an easting less
\* than xmpp and a northing less than ympp from c's (where the zone shift of
\* screen_to_coord is undefined, for some outcome of it).
C15_UTMRoundTrip ==
  vvp.coord_mode = VIK_COORD_UTM =>
    \A c \in TargetArgs :
      (c.mode = VIK_COORD_UTM /\ c.utm_zone = vvp.center.utm_zone) =>
        \A p \in vik_viewport_coord_to_screen(vvp, c) :
          \E r \in ScreenToCoordAt(vvp, p) :
            /\ r.utm_zone = c.utm_zone
            /\ Abs(r.east_west - c.east_west) < vvp.xmpp
            /\ Abs(r.north_south - c.north_south) < vvp.ympp

\* the LatLon points around the centre of v
PointsNear(v) ==
  { VikCoordOf(v.center.north_south + o[1], v.center.east_west + o[2],
               0, "", VIK_COORD_LATLON) : o \in OffsetArgs }

\* pixel p lies inside the viewport
InsideViewport(v, p) ==
  ~p.abort /\ p.x >= 0 /\ p.x <= v.width /\ p.y >= 0 /\ p.y <= v.height

\* a and b differ by less than one pixel of size rev (degrees per pixel, a
\* ratio), where b was rounded down to the fixed-point grid
WithinOnePixel(a, b, rev) == Abs(a - b) * rev.den < rev.num + rev.den

\* C16 (as stated): in Google mode screen_to_coord(coord_to_screen(p)) gives
\* back the latitude and longitude of every point p inside the viewport.
C16_GoogleRoundTripExact ==
  vvp.drawmode = VIK_VIEWPORT_DRAWMODE_GOOGLE =>
    \A c \in PointsNear(vvp) :
      \A p \in vik_viewport_coord_to_screen(vvp, c) :
        InsideViewport(vvp, p) =>
          \A r \in ScreenToCoordAt(vvp, p) :
            r.north_south = c.north_south /\ r.east_west = c.east_west

\* C16 (amended): in Google mode screen_to_coord(coord_to_screen(p)) gives,
\* for every point p inside the viewport, a point less than one pixel from
\* p: less than google_calcx_rev_fact degrees of longitude and less than
\* google_calcy_rev_fact degrees of latitude.
C16_GoogleRoundTripOnePixel ==
  vvp.drawmode = VIK_VIEWPORT_DRAWMODE_GOOGLE =>
    \A c \in PointsNear(vvp) :
      \A p \in vik_viewport_coord_to_screen(vvp, c) :
        InsideViewport(vvp, p) =>
          \A r \in ScreenToCoordAt(vvp, p) :
            /\ r.mode = VIK_COORD_LATLON
            /\ WithinOnePixel(c.north_south, r.north_south, vvp.google_calcy_rev_fact)
            /\ WithinOnePixel(c.east_west, r.east_west, vvp.google_calcx_rev_fact)

\* C16 witness: in Google mode at zoom 8192 a point off the centre lands on
\* a pixel inside an 800x600 viewport other than the middle one, and comes
\* back with another longitude.
C16_Witness ==
  /\ vvp.drawmode = VIK_VIEWPORT_DRAWMODE_GOOGLE
  /\ vvp.xmpp = VIK_VIEWPORT_MAX_ZOOM
  /\ vvp.width = 800
  /\ \E c \in PointsNear(vvp) :
       \E p \in vik_viewport_coord_to_screen(vvp, c) :
         /\ InsideViewport(vvp, p)
         /\ p.x # vvp.width \div 2
         /\ \E r \in ScreenToCoordAt(vvp, p) : r.east_west # c.east_west

\* both end points of the last line request lie on one side of the viewport
LineOffOneSide ==
  LET x1 == gdk.args[1]
      y1 == gdk.args[2]
      x2 == gdk.args[3]
      y2 == gdk.args[4]
  IN  \/ (x1 < 0 /\ x2 < 0)
      \/ (y1 < 0 /\ y2 < 0)
      \/ (x1 > vvp.width /\ x2 > vvp.width)
      \/ (y1 > vvp.height /\ y2 > vvp.height)

\* C17: draw_line invokes the line primitive exactly when its two end points
\* are not both left of, both above, both right of or both below the
\* viewport.
C17_DrawLineClipped ==
  lastOp.op = "draw_line" =>
    IF LineOffOneSide THEN gdk.prims = << >>
    ELSE gdk.prims = << "gdk_draw_line" >>

\* C17 witness: a line with both end points at x < 0, one above and one
\* below the top edge, was requested and nothing was drawn.
C17_Witness ==
  /\ lastOp.op = "draw_line"
  /\ gdk.args[1] < 0 /\ gdk.args[3] < 0
  /\ gdk.args[2] < 0 /\ gdk.args[4] > 0 /\ gdk.args[4] < vvp.height
  /\ gdk.prims = << >>

\* the box from (x, y), w wide and h high, lies wholly on one side of the
\* viewport, more than margin pixels away from it
BoxOffScreen(x, y, w, h, margin) ==
  \/ x + w < -margin
  \/ y + h < -margin
  \/ x > vvp.width + margin
  \/ y > vvp.height + margin

\* the last drawing request lies wholly off the screen, beyond the margin of
\* its operation
RequestOffScreen ==
  LET a == gdk.args
  IN  CASE lastOp.op = "draw_line" -> LineOffOneSide
        [] lastOp.op = "draw_rectangle" -> BoxOffScreen(a[1], a[2], a[3], a[4], 10)
        [] lastOp.op = "draw_pixbuf" -> BoxOffScreen(a[1], a[2], a[3], a[4], 10)
        [] lastOp.op = "draw_string" -> BoxOffScreen(a[1], a[2], 0, 0, 100)
        [] lastOp.op = "draw_layout" -> BoxOffScreen(a[1], a[2], 0, 0, 100)
        [] lastOp.op = "draw_arc" -> BoxOffScreen(a[1], a[2], a[3], a[4], 0)
        [] lastOp.op = "draw_polygon" ->
             BoxOffScreen(Min(a[1], a[3]), Min(a[2], a[4]),
                          Abs(a[3] - a[1]), Abs(a[4] - a[2]), 0)
        [] OTHER -> FALSE

\* C18: no drawing operation (line, rectangle, string, layout, pixbuf, arc,
\* polygon) invokes its primitive for a request that lies wholly off the
\* screen beyond its margin (10 pixels for rectangles and pixbufs, 100 for
\* strings and layouts).
C18_OffScreenNotDrawn == RequestOffScreen => gdk.prims = << >>

\* C19: after draw_pixbuf_with_alpha calls with alpha # 0 the recorded width
\* and height of the scratch buffer are the largest w and h requested so far,
\* they never decrease, and the buffer is replaced only by a call whose w or
\* h exceeds the recorded size.
C19_AlphaBufferLargestSoFar ==
  [][ (lastOp'.op = "draw_pixbuf_with_alpha" /\ lastOp'.arg.a # 0)
      => /\ vvp'.alpha_pixbuf_width = gdk'.maxw
         /\ vvp'.alpha_pixbuf_height = gdk'.maxh
         /\ vvp'.alpha_pixbuf_width >= vvp.alpha_pixbuf_width
         /\ vvp'.alpha_pixbuf_height >= vvp.alpha_pixbuf_height
         /\ vvp'.alpha_pixbuf_width >= gdk'.args[3]
         /\ vvp'.alpha_pixbuf_height >= gdk'.args[4]
         /\ (vvp'.alpha_pixbuf # vvp.alpha_pixbuf
               => \/ gdk'.args[3] > vvp.alpha_pixbuf_width
                  \/ gdk'.args[4] > vvp.alpha_pixbuf_height)
    ]_vars


\* the worker threads at one of the positions S
ThreadsAt(S) == {t \in Threads : curl.pc[t] \in S}

\* C20: once curl_download_init has run, at most one thread is between
\* g_mutex_lock and g_mutex_unlock of get_cookie_file (the test for the
\* cookie file, the cookie request, the creation and the removal of the
\* file), that thread holds the mutex, and so no two threads are both in the
\* branch that found the file missing.
C20_OneThreadInCookieSection ==
  curl.main = "done" =>
    /\ Cardinality(ThreadsAt(LockedSection)) <= 1
    /\ Cardinality(ThreadsAt(PopulateSection)) <= 1
    /\ \A t \in ThreadsAt(LockedSection) : curl.mutex = t

\* a thread is fetching the cookie file while two others are in
\* curl_download_uri, one of them waiting for the mutex
C20_Witness ==
  /\ curl.main = "done"
  /\ \E t1, t2, t3 \in Threads :
       /\ t1 # t2 /\ t1 # t3 /\ t2 # t3
       /\ curl.pc[t1] = "fetch"
       /\ curl.pc[t2] = "lock"
       /\ curl.pc[t3] \in {"assert", "lock"}


\* the positions after g_assert(cookie_file != NULL)
AfterAssert == {"lock", "perform"} \cup LockedSection

\* C21: a curl_download_uri call that reaches get_cookie_file while
\* cookie_file is still NULL (curl_download_init has not set it) does not get
\* past g_assert: the process aborts there and takes no further step.  So a
\* thread at g_mutex_lock or beyond, up to the transfer of curl_download_uri,
\* always has a created mutex and a set cookie_file.
C21_InitBeforeFetch ==
  [][ /\ \A t \in Threads :
          curl.pc[t] = "assert" /\ curl.cookie_file = "NULL"
            => curl'.pc[t] = "assert"
      /\ \A t \in Threads :
          curl'.pc[t] \in AfterAssert
            => curl'.cookie_file # "NULL" /\ curl'.mutex # MUTEX_NULL
      /\ curl.aborted => curl' = curl
    ]_vars

\* a thread called curl_download_uri before curl_download_init had set
\* cookie_file, and the process aborted at the assertion
C21_Witness ==
  /\ curl.aborted
  /\ curl.cookie_file = "NULL"
  /\ \E t \in Threads : curl.pc[t] = "assert"


\* the zones of the UTM grid
UTMZones == 1 .. 60

\* zones asked of center_for_zonen
ZoneArgs == {1, 30, 31, 60}

\* C22: in UTM mode the centre has a zone in 1..60, so has every result of
\* screen_to_coord for the pixels of the screen's edge (where the zone width
\* is known, so that the result is defined), and so has every result of
\* center_for_zonen for a zone in 1..60.
C22_UTMZoneInRange ==
  vvp.coord_mode = VIK_COORD_UTM =>
    /\ vvp.center.utm_zone \in UTMZones
    /\ vvp.utm_zone_width > 0 =>
         \A x \in {0, vvp.width} :
           \A c \in vik_viewport_screen_to_coord(vvp, x, 0, NoCoord) :
             c.utm_zone \in UTMZones
    /\ \A z \in ZoneArgs :
         vik_viewport_center_for_zonen(vvp, VIK_UTM(NoCoord), z).zone \in UTMZones


\* a LatLon inside the ranges of latitude and longitude
LatLonInRange(ll) ==
  /\ ll.lat >= (-90) * FX /\ ll.lat <= 90 * FX
  /\ ll.lon >= (-180) * FX /\ ll.lon <= 180 * FX

\* C23: in the LatLon coordinate mode (the Expedia, Google, KH and Mercator
\* draw modes) a set_center_screen pan or a zoom change made on a centre
\* with latitude in [-90, 90] and longitude in [-180, 180] leaves such a
\* centre.
C23_LatLonCenterInRange ==
  [][ /\ vvp.coord_mode = VIK_COORD_LATLON
      /\ vvp.center.mode = VIK_COORD_LATLON
      /\ LatLonInRange(VIK_LATLON(vvp.center))
      /\ lastOp'.op \in ZoomOrCenterOps \ {"set_center_latlon", "set_center_utm",
                                           "set_center_coord"}
      => LatLonInRange(VIK_LATLON(vvp'.center))
    ]_vars


\* 90 + (gint) lat: the entry of the geodesy table for a latitude
RadiusIndexOf(lat) == 90 + TruncDiv(lat, FX)

\* C24: in Expedia mode, with the centre and the target inside the range
\* of latitude, coord_to_screen reads Radius at the integer degree of the
\* target's latitude and screen_to_coord reads it at the integer degree of
\* the centre's latitude.
C24_ExpediaRadiusLatitude ==
  /\ vvp.drawmode = VIK_VIEWPORT_DRAWMODE_EXPEDIA
  /\ vvp.center.mode = VIK_COORD_LATLON
  /\ LatLonInRange(VIK_LATLON(vvp.center))
  => /\ \A c \in PointsNear(vvp) :
          LatLonInRange(VIK_LATLON(c)) =>
            coord_to_screen_Ra(vvp, c) = RadiusIndexOf(c.north_south)
     /\ screen_to_coord_Ra(vvp) = RadiusIndexOf(vvp.center.north_south)


\* targets at the centre's longitude with a latitude beyond a pole
BeyondPoles(v) ==
  { VikCoordOf(lat, v.center.east_west, 0, "", VIK_COORD_LATLON)
    : lat \in {(-91) * FX, 90 * FX + 1, 95 * FX} }

\* C25: in Expedia mode, with the centre inside the range of latitude,
\* coord_to_screen of a target whose latitude is outside [-90, 90] stops at
\* the assertion of calcxy and delivers no pixel.
C25_ExpediaTargetLatitudeAsserted ==
  /\ vvp.drawmode = VIK_VIEWPORT_DRAWMODE_EXPEDIA
  /\ vvp.center.mode = VIK_COORD_LATLON
  /\ LatLonInRange(VIK_LATLON(vvp.center))
  => \A c \in BeyondPoles(vvp) :
       vik_viewport_coord_to_screen(vvp, c) = { Aborted }


\* the table holds calcR(i) * DEG2RAD in each of its 181 entries
RadiusPopulated ==
  /\ DOMAIN ra.Radius = 1 .. 181
  /\ \A i \in 1 .. 181 : ra.Radius[i] = Radius[i] /\ ra.Radius[i] > 0

\* C26: the filling loop of viewport_init_ra runs once, in the creation of
\* the first viewport, and fills the 181 entries; the creation of a further
\* viewport leaves every entry as it is; and whenever a viewport exists (so
\* that a projection can be called on it) the table is populated.
C26_RadiusPopulatedOnce ==
  [][ /\ ra'.fills <= 1
      /\ ra.viewports = 0 /\ ra'.viewports = 1 =>
           ra'.fills = 1 /\ RadiusPopulated'
      /\ ra.viewports > 0 => ra'.Radius = ra.Radius
      /\ ra'.viewports > 0 => RadiusPopulated'
    ]_vars

\* a second viewport was created, then put into Expedia mode and panned (the
\* pan reads the table)
C26_Witness ==
  /\ ra.viewports >= 2
  /\ ra.fills = 1
  /\ vvp.drawmode = VIK_VIEWPORT_DRAWMODE_EXPEDIA
  /\ lastOp.op = "set_center_screen"


\* the UTM coordinate c written with its zone moved by k: zone z + k and
\* easting e - k * utm_zone_width
Renormalised(v, c, k) ==
  [c EXCEPT !.utm_zone = c.utm_zone + k,
            !.east_west = c.east_west - k * v.utm_zone_width]

\* numbers of zones a coordinate is moved by
ZoneShifts == -2 .. 2

C28_UTMPanAgreesWithGeneric ==
  [][ /\ lastOp'.op = "set_center_screen"
      /\ vvp.coord_mode = VIK_COORD_UTM
      /\ vvp'.center.utm_zone = vvp.center.utm_zone
      => \A r \in vik_viewport_screen_to_coord(vvp, lastOp'.arg.a, lastOp'.arg.b,
                                                vvp.center) :
           r.utm_zone = vvp.center.utm_zone =>
             VIK_UTM(vvp'.center) = VIK_UTM(r)
    ]_vars

\* a pan off the middle of a sized viewport that kept the centre in zone 30,
\* where the first zone check had put it at easting 500000
C28_Witness ==
  /\ lastOp.op = "set_center_screen"
  /\ vvp.coord_mode = VIK_COORD_UTM
  /\ vvp.width > 0 /\ vvp.utm_zone_width > 0
  /\ vvp.center.utm_zone = 30
  /\ lastOp.arg.a # vvp.width \div 2
  /\ lastOp.arg.b # vvp.height \div 2
  /\ vvp.center.east_west
       = EASTING_OFFSET + vvp.xmpp * (lastOp.arg.a - vvp.width \div 2)
  /\ vvp.center.north_south = vvp.ympp * (vvp.height \div 2 - lastOp.arg.b)


\* C29: when a call of curl_download_get_url has returned, its value is 0 if
\* the curl_easy_perform of curl_download_uri returned CURLE_OK and -2 if it
\* returned anything else or if curl_easy_init gave no handle; and a call
\* that got no handle returns without touching the mutex or the cookie file.
C29_GetUrlReturn ==
  [][ \A t \in Threads :
        /\ curl'.pc[t] = "idle" /\ curl'.res[t] # "none" =>
             /\ curl'.ret[t] \in {0, -2}
             /\ curl'.ret[t] = 0 <=> curl'.res[t] = "CURLE_OK"
        /\ curl.pc[t] = "idle" /\ curl'.pc[t] = "idle"
             /\ curl'.res[t] # curl.res[t] =>
             /\ curl'.res[t] = "CURLE_FAILED_INIT"
             /\ curl'.ret[t] = -2
             /\ curl'.mutex = curl.mutex
             /\ curl'.file = curl.file
    ]_vars

\* one call returned 0 after a successful transfer, another -2 after a
\* failed one, a third -2 for want of a handle
C29_Witness ==
  \E t1, t2, t3 \in Threads :
    /\ curl.pc[t1] = "idle" /\ curl.res[t1] = "CURLE_OK" /\ curl.ret[t1] = 0
    /\ curl.pc[t2] = "idle" /\ curl.res[t2] = "CURLE_OTHER" /\ curl.ret[t2] = -2
    /\ curl.pc[t3] = "idle" /\ curl.res[t3] = "CURLE_FAILED_INIT"
                            /\ curl.ret[t3] = -2


\* C30: in every state whose coordinate mode is UTM, the freshly created
\* viewport and the state right after set_drawmode(UTM) included,
\* utm_zone_width is greater than 0, so that the division by it in
\* screen_to_coord is defined.
C30_ZoneWidthPositive ==
  vvp.coord_mode = VIK_COORD_UTM => vvp.utm_zone_width > 0


C32_FindReturnsZeroConvertsOnce ==
  [][ /\ route'.finds = route.finds + 1
      /\ route'.conversions = route.conversions + 1
      /\ route'.ret = 0
      /\ lastOp'.arg.m = "NULL" => route'.uri.null
      /\ lastOp'.arg.m = "url" => ~route'.uri.null
    ]_vars

\* find was called on an engine without get_url_for_coords and the
\* conversion, given NULL, failed, after a call that converted a URL
C32_Witness ==
  /\ lastOp.op = "find" /\ lastOp.arg.m = "NULL"
  /\ route.finds >= 2 /\ route.conversions = route.finds
  /\ route.uri.null /\ ~route.converted
  /\ route.ret = 0

=============================================================================
